---------------------------- MODULE Spec2Model ----------------------------
(***************************************************************************)
(* A model of the WebMCP analysis-and-reconciliation pipeline:             *)
(*   - the risk classifier             (classifier/risk-classifier.ts)     *)
(*   - the proposal builder            (proposal/index.ts)                 *)
(*   - the AST <-> runtime matcher     (classifier/matcher.ts)             *)
(*   - the runtime probe               (probe/runtime-probe.ts)            *)
(*   - the CLI instrument command and the Vite plugin that drive them.     *)
(*                                                                         *)
(* JavaScript strings are TLA+ strings; an optional string that is absent  *)
(* is the value `undefined`.  Selector scores are kept in hundredths       *)
(* (0.6 is 60) so that they stay integers.                                 *)
(***************************************************************************)
EXTENDS Integers, Sequences, FiniteSets, TLC

VARIABLES
    riskIn,        \* SpecRisk: the (triggerElement, handler) pair given to classifyRisk
    riskOut,       \* SpecRisk: the RiskClassification returned, or NoClassification
    stabIn,        \* SpecStability: the candidate given to assessStability
    stabOut,       \* SpecStability: {} before the call, {verdict} after it
    matchElements, \* SpecMatch: the static elements (mutated in place by the matcher)
    matchProbe,    \* SpecMatch: the probe elements
    matchDone,     \* SpecMatch: matchElementsToProbe has returned
    idIn,          \* SpecId: two candidates, [a, b], given to generateToolId
    idOut,         \* SpecId: {} before the calls, {[a, b]} (the two ids) after them
    probeOptions,  \* SpecProbe: the ProbeOptions given to runProbe
    probeDom,      \* SpecProbe: the interactive elements the page at `url` renders
    probePc,       \* SpecProbe: the await at which runProbe stands
    probeBrowser,  \* SpecProbe: the local `browser`: "null", "open" or "closed"
    probeCompletion, \* SpecProbe: how the try block ended: "none", "return", "throw" at <step>
    probeSettled,  \* SpecProbe: {} while the promise is pending, {result} once settled
    cliPc,         \* Spec: the step at which instrumentCommand stands
    cliOptions,    \* Spec: the command-line options
    cliAnalysis,      \* Spec: the ComponentAnalysis of the parsed file
    cliProbeElements, \* Spec: the local `probeElements`
    cliProposals,     \* Spec: the list returned by buildProposals
    cliSelected,      \* Spec: the tools passed to generateMCPCode
    cacheFile,     \* SpecCache: what .webmcp/cache.json holds
    inMemoryCache, \* SpecCache: the module variable `inMemoryCache`
    cacheReads,    \* SpecCache: how many times the process has read the cache file
    cacheStored,   \* SpecCache: the keys stored so far, on disk at start or by a set
    cacheLast,     \* SpecCache: the last call made and how it ended
    walkIn,        \* SpecWalk: the parser dialect and the tags of the markup, in order
    walkPos,       \* SpecWalk: how many tags the walk has visited
    formDepth,     \* SpecWalk: the walker's `formDepth`
    currentFormId, \* SpecWalk: the walker's `currentFormId`
    walkElements,  \* SpecWalk: the walker's `elements`
    walkEmittedAt, \* SpecWalk: for each emitted element, the position of its tag
    handlersIn,    \* SpecHandlers: the parser dialect and the handler bindings of the file
    handlersOut,   \* SpecHandlers: {} before the parse, {eventHandlers} after it
    groupIn,       \* SpecGroup: the component given to the proposal builder
    groupOut,      \* SpecGroup: {} before the call, {[candidates, proposals]} after it
    viteSources,   \* SpecVite: what each included source file holds
    generatedCodes,\* SpecVite: the plugin's map from file to generated code
    vitePc,        \* SpecVite: created before buildStart, started after it
    viteServed,    \* SpecVite: {} before a load, {tools} of the virtual module last served
    proposalCache, \* SpecWebhook: the entries of the proposal cache Map, in insertion order
    webhookNow,    \* SpecWebhook: Date.now(), in milliseconds
    webhookPosts,  \* SpecWebhook: how many requests have been handled
    webhookLast,   \* SpecWebhook: the last request and what the handler did with it
    findEl,        \* SpecFind: the element whose selectors the generated handler embeds
    findResolving, \* SpecFind: the selectors that match an element of the live document
    findResult,    \* SpecFind: {} before the lookup, {outcome} of __mcpFind after it
    runtimeTools,  \* SpecRuntime: the runtime's Map from tool name to {} or {registered tool}
    runtimeCall,   \* SpecRuntime: the invokeTool call in progress or last settled
    pairIn,        \* SpecPair: the buttons of the JSX source, in source order
    pairOut,       \* SpecPair: {} before the call, {candidates} after it
    keyIn,         \* SpecKeys: the input elements of the form candidate
    keyTool,       \* SpecKeys: {} before buildProposals, {proposal} after it
    keyHandler,    \* SpecKeys: {} before buildTemplateHandler, {its fill lines} after it
    nameIn,        \* SpecNames: the component handed to buildProposals
    nameOut        \* SpecNames: {} before the call, {proposals} after it

riskVars == <<riskIn, riskOut>>
stabVars == <<stabIn, stabOut>>
matchVars == <<matchElements, matchProbe, matchDone>>
idVars == <<idIn, idOut>>
probeVars == <<probeOptions, probeDom, probePc, probeBrowser, probeCompletion, probeSettled>>

cliVars == <<cliPc, cliOptions, cliAnalysis, cliProbeElements, cliProposals, cliSelected>>

cacheVars == <<cacheFile, inMemoryCache, cacheReads, cacheStored, cacheLast>>

\* The parts of the program listed first, and the ones after them.
earlierVars == <<riskVars, stabVars, matchVars, idVars, probeVars, cliVars>>
walkVars == <<walkIn, walkPos, formDepth, currentFormId, walkElements, walkEmittedAt>>
handlerVars == <<handlersIn, handlersOut>>
groupVars == <<groupIn, groupOut>>
viteVars == <<viteSources, generatedCodes, vitePc, viteServed>>
webhookVars == <<proposalCache, webhookNow, webhookPosts, webhookLast>>
findVars == <<findEl, findResolving, findResult>>
runtimeVars == <<runtimeTools, runtimeCall>>
pairVars == <<pairIn, pairOut>>
keysVars == <<keyIn, keyTool, keyHandler>>
namesVars == <<nameIn, nameOut>>
laterVars == <<cacheVars, walkVars, handlerVars, groupVars, viteVars, webhookVars, findVars, runtimeVars, pairVars, keysVars, namesVars>>

vars == <<earlierVars, laterVars>>

NamesOthers == <<earlierVars, cacheVars, walkVars, handlerVars, groupVars, viteVars, webhookVars, findVars, runtimeVars, pairVars, keysVars>>

KeysOthers == <<earlierVars, cacheVars, walkVars, handlerVars, groupVars, viteVars, webhookVars, findVars, runtimeVars, pairVars, namesVars>>

PairOthers == <<earlierVars, cacheVars, walkVars, handlerVars, groupVars, viteVars, webhookVars, findVars, runtimeVars, keysVars, namesVars>>

RuntimeOthers == <<earlierVars, cacheVars, walkVars, handlerVars, groupVars, viteVars, webhookVars, findVars, pairVars, keysVars, namesVars>>

FindOthers == <<earlierVars, cacheVars, walkVars, handlerVars, groupVars, viteVars, webhookVars, runtimeVars, pairVars, keysVars, namesVars>>

WebhookOthers == <<earlierVars, cacheVars, walkVars, handlerVars, groupVars, viteVars, findVars, runtimeVars, pairVars, keysVars, namesVars>>

ViteOthers == <<earlierVars, cacheVars, walkVars, handlerVars, groupVars, webhookVars, findVars, runtimeVars, pairVars, keysVars, namesVars>>

-----------------------------------------------------------------------------
(* JavaScript values *)

\* The absent value of an optional string field.
undefined == "<undefined>"

\* `if (s)` on an optional string: neither undefined nor the empty string.
Truthy(s) == s # undefined /\ s # ""

\* a ?? b
Coalesce(a, b) == IF a # undefined THEN a ELSE b

UpperAlphabet == "ABCDEFGHIJKLMNOPQRSTUVWXYZ"
LowerAlphabet == "abcdefghijklmnopqrstuvwxyz"
Digits == "0123456789"

CharAt(s, i) == SubSeq(s, i, i)

\* The position of the one-character string c in the alphabet a, or 0.
IndexIn(a, c) ==
    IF \E i \in 1..Len(a) : CharAt(a, i) = c
    THEN CHOOSE i \in 1..Len(a) : CharAt(a, i) = c
    ELSE 0

lowerChar(c) ==
    LET i == IndexIn(UpperAlphabet, c) IN IF i = 0 THEN c ELSE CharAt(LowerAlphabet, i)

upperChar(c) ==
    LET i == IndexIn(LowerAlphabet, c) IN IF i = 0 THEN c ELSE CharAt(UpperAlphabet, i)

RECURSIVE toLowerCase(_)
toLowerCase(s) ==
    IF s = "" THEN "" ELSE lowerChar(CharAt(s, 1)) \o toLowerCase(SubSeq(s, 2, Len(s)))

RECURSIVE toUpperCase(_)
toUpperCase(s) ==
    IF s = "" THEN "" ELSE upperChar(CharAt(s, 1)) \o toUpperCase(SubSeq(s, 2, Len(s)))

\* String.prototype.includes
Includes(text, pattern) ==
    \E i \in 1..(Len(text) - Len(pattern) + 1) :
        SubSeq(text, i, i + Len(pattern) - 1) = pattern

\* Array.prototype.join
RECURSIVE Join(_, _)
Join(parts, sep) ==
    IF Len(parts) = 0 THEN ""
    ELSE IF Len(parts) = 1 THEN parts[1]
    ELSE parts[1] \o sep \o Join(Tail(parts), sep)

\* The elements of a sequence, as a set.
Range(seq) == {seq[i] : i \in 1..Len(seq)}

-----------------------------------------------------------------------------
(* types.ts: the element, handler and selector records *)

AttributeNames == {"type", "name", "class", "data-testid", "data-mcp"}

NoAttributes == [a \in AttributeNames |-> undefined]

\* A UIElement.  selectorFallback is {} when the field is absent and {list}
\* when the matcher has set it.
UIElement(tag, id, name, label, inputType, attributes) ==
    [ tag              |-> tag,
      id               |-> id,
      name             |-> name,
      label            |-> label,
      inputType        |-> inputType,
      attributes       |-> attributes,
      stateBinding     |-> undefined,
      required         |-> FALSE,
      ariaLabel        |-> undefined,
      parentFormId     |-> undefined,
      selectorFallback |-> {} ]

\* `triggerElement` when the candidate has none: every optional read is undefined.
NoElement == UIElement(undefined, undefined, undefined, undefined, undefined, NoAttributes)

EventHandler(name, event, elementTag, elementId, body, apiCalls) ==
    [ name       |-> name,
      event      |-> event,
      elementTag |-> elementTag,
      elementId  |-> elementId,
      body       |-> body,
      apiCalls   |-> apiCalls ]

\* `handler` when the candidate has none.
NoHandler == EventHandler(undefined, undefined, undefined, undefined, undefined, <<>>)

ApiCall(method, url) == [method |-> method, url |-> url]

DESTRUCTIVE_KEYWORDS ==
    << "delete", "remove", "destroy", "drop", "purge", "erase",
       "revoke", "terminate", "cancel", "unsubscribe", "deactivate",
       "reset", "wipe", "clear-all" >>

CAUTION_KEYWORDS ==
    << "update", "edit", "modify", "change", "save", "submit",
       "post", "put", "patch", "send", "publish", "create",
       "toggle", "enable", "disable", "set" >>

EXCLUDED_PATTERNS ==
    << "navigate", "redirect", "route", "link", "href", "goto",
       "file-upload", "upload-file" >>

-----------------------------------------------------------------------------
(* classifier/risk-classifier.ts *)

RiskClassification(risk, reason) == [risk |-> risk, reason |-> reason]

NoClassification == RiskClassification(undefined, undefined)

\* The first entry of `keywords` that occurs in `allText`, or undefined:
\* the `for (const k of keywords) if (allText.includes(k)) return` loops.
FirstKeywordIn(allText, keywords) ==
    IF \E i \in 1..Len(keywords) : Includes(allText, keywords[i])
    THEN keywords[CHOOSE i \in 1..Len(keywords) :
                      /\ Includes(allText, keywords[i])
                      /\ \A j \in 1..(i - 1) : ~Includes(allText, keywords[j])]
    ELSE undefined

\* A mutation of RiskSignals: the handler's signals are read only when there
\* is a trigger element.
RiskSignalsOfElementOnly(triggerElement, handler) ==
       (IF Truthy(triggerElement.label) THEN <<toLowerCase(triggerElement.label)>> ELSE <<>>)
    \o (IF Truthy(triggerElement.name) THEN <<toLowerCase(triggerElement.name)>> ELSE <<>>)
    \o (IF Truthy(triggerElement.id) THEN <<toLowerCase(triggerElement.id)>> ELSE <<>>)
    \o (IF triggerElement # NoElement /\ Truthy(handler.name)
        THEN <<toLowerCase(handler.name)>> ELSE <<>>)
    \o (IF triggerElement # NoElement /\ Truthy(handler.body)
        THEN <<toLowerCase(handler.body)>> ELSE <<>>)

\* The text signals, in push order.
RiskSignals(triggerElement, handler) ==
       (IF Truthy(triggerElement.label) THEN <<toLowerCase(triggerElement.label)>> ELSE <<>>)
    \o (IF Truthy(triggerElement.name) THEN <<toLowerCase(triggerElement.name)>> ELSE <<>>)
    \o (IF Truthy(triggerElement.id) THEN <<toLowerCase(triggerElement.id)>> ELSE <<>>)
    \o (IF Truthy(handler.name) THEN <<toLowerCase(handler.name)>> ELSE <<>>)
    \o (IF Truthy(handler.body) THEN <<toLowerCase(handler.body)>> ELSE <<>>)

\* handler?.apiCalls?.map(c => c.method.toUpperCase()) ?? []
HttpMethods(handler) ==
    [i \in 1..Len(handler.apiCalls) |-> toUpperCase(handler.apiCalls[i].method)]

\* A mutation of classifyRisk: the destructive rule is tried before the
\* exclusion rule.
classifyRiskDestructiveFirst(triggerElement, handler) ==
    LET allText     == Join(RiskSignals(triggerElement, handler), " ")
        httpMethods == HttpMethods(handler)
        excluded    == FirstKeywordIn(allText, EXCLUDED_PATTERNS)
        destructive == FirstKeywordIn(allText, DESTRUCTIVE_KEYWORDS)
        caution     == FirstKeywordIn(allText, CAUTION_KEYWORDS)
    IN  IF destructive # undefined \/ "DELETE" \in Range(httpMethods)
        THEN RiskClassification("destructive", "Contains destructive keyword")
        ELSE IF excluded # undefined
        THEN RiskClassification("excluded", "Matches excluded pattern")
        ELSE IF caution # undefined \/ Range(httpMethods) \cap {"POST", "PUT", "PATCH"} # {}
        THEN RiskClassification("caution", "Contains mutation keyword")
        ELSE RiskClassification("safe", "No mutation or destructive signals detected")

classifyRisk(triggerElement, handler) ==
    LET allText     == Join(RiskSignals(triggerElement, handler), " ")
        httpMethods == HttpMethods(handler)
        excluded    == FirstKeywordIn(allText, EXCLUDED_PATTERNS)
        destructive == FirstKeywordIn(allText, DESTRUCTIVE_KEYWORDS)
        caution     == FirstKeywordIn(allText, CAUTION_KEYWORDS)
    IN  IF excluded # undefined
        THEN RiskClassification("excluded",
                 "Matches excluded pattern: \"" \o excluded \o "\"")
        ELSE IF destructive # undefined
        THEN RiskClassification("destructive",
                 "Contains destructive keyword: \"" \o destructive \o "\"")
        ELSE IF "DELETE" \in Range(httpMethods)
        THEN RiskClassification("destructive", "Handler makes DELETE API call")
        ELSE IF caution # undefined
        THEN RiskClassification("caution",
                 "Contains mutation keyword: \"" \o caution \o "\"")
        ELSE IF Range(httpMethods) \cap {"POST", "PUT", "PATCH"} # {}
        THEN RiskClassification("caution",
                 "Handler makes " \o Join(httpMethods, ", ") \o " API call")
        ELSE RiskClassification("safe", "No mutation or destructive signals detected")

-----------------------------------------------------------------------------
(* proposal/index.ts: utilities *)

IsUpper(c) == IndexIn(UpperAlphabet, c) # 0
IsAlnumOrUnderscore(c) ==
    \/ IndexIn(UpperAlphabet, c) # 0
    \/ IndexIn(LowerAlphabet, c) # 0
    \/ IndexIn(Digits, c) # 0
    \/ c = "_"
IsSpaceOrHyphen(c) == c \in {" ", "-", "\t", "\n"}

\* .replace(/([A-Z])/g, '_$1')
RECURSIVE UnderscoreBeforeUpper(_)
UnderscoreBeforeUpper(s) ==
    IF s = "" THEN ""
    ELSE LET c == CharAt(s, 1)
         IN  (IF IsUpper(c) THEN "_" \o c ELSE c)
                 \o UnderscoreBeforeUpper(SubSeq(s, 2, Len(s)))

\* .replace(/[\s\-]+/g, '_'): `inRun` says the previous character was in a run.
RECURSIVE SpacesToUnderscore(_, _)
SpacesToUnderscore(s, inRun) ==
    IF s = "" THEN ""
    ELSE LET c    == CharAt(s, 1)
             rest == SubSeq(s, 2, Len(s))
         IN  IF IsSpaceOrHyphen(c)
             THEN (IF inRun THEN "" ELSE "_") \o SpacesToUnderscore(rest, TRUE)
             ELSE c \o SpacesToUnderscore(rest, FALSE)

\* .replace(/[^a-z0-9_]/gi, '')
RECURSIVE StripNonWord(_)
StripNonWord(s) ==
    IF s = "" THEN ""
    ELSE LET c == CharAt(s, 1)
         IN  (IF IsAlnumOrUnderscore(c) THEN c ELSE "")
                 \o StripNonWord(SubSeq(s, 2, Len(s)))

\* .replace(/_+/g, '_')
RECURSIVE CollapseUnderscores(_, _)
CollapseUnderscores(s, inRun) ==
    IF s = "" THEN ""
    ELSE LET c    == CharAt(s, 1)
             rest == SubSeq(s, 2, Len(s))
         IN  IF c = "_"
             THEN (IF inRun THEN "" ELSE "_") \o CollapseUnderscores(rest, TRUE)
             ELSE c \o CollapseUnderscores(rest, FALSE)

\* .replace(/^_|_$/g, '')
TrimUnderscores(s) ==
    LET a == IF Len(s) > 0 /\ CharAt(s, 1) = "_" THEN SubSeq(s, 2, Len(s)) ELSE s
    IN  IF Len(a) > 0 /\ CharAt(a, Len(a)) = "_" THEN SubSeq(a, 1, Len(a) - 1) ELSE a

toSnakeCase(str) ==
    toLowerCase(TrimUnderscores(CollapseUnderscores(StripNonWord(
        SpacesToUnderscore(UnderscoreBeforeUpper(str), FALSE)), FALSE)))

\* Math.max(...list.map(s => s.score)) of a non-empty list.
MaxScore(list) ==
    CHOOSE m \in {list[i].score : i \in 1..Len(list)} :
        \A i \in 1..Len(list) : list[i].score <= m

\* Array.prototype.find / findIndex as a position: the first index whose
\* element satisfies Test, or 0.
FirstIndex(seq, Test(_)) ==
    IF \E i \in 1..Len(seq) : Test(seq[i])
    THEN CHOOSE i \in 1..Len(seq) :
             Test(seq[i]) /\ \A j \in 1..(i - 1) : ~Test(seq[j])
    ELSE 0

\* The increasing sequence of the positions of seq whose element satisfies Test.
RECURSIVE IndicesFrom(_, _, _)
IndicesFrom(n, from, Keep) ==
    IF from > n THEN <<>>
    ELSE (IF from \in Keep THEN <<from>> ELSE <<>>) \o IndicesFrom(n, from + 1, Keep)

-----------------------------------------------------------------------------
(* proposal/index.ts: grouping *)

ComponentInfo(name, elements, eventHandlers) ==
    [name |-> name, elements |-> elements, eventHandlers |-> eventHandlers]

ToolCandidate(type, componentName, triggerElement, inputElements, handler) ==
    [ type           |-> type,
      componentName  |-> componentName,
      triggerElement |-> triggerElement,
      inputElements  |-> inputElements,
      handler        |-> handler ]

\* `if (candidate.triggerElement)`
HasTrigger(candidate) == candidate.triggerElement.tag # undefined

isPasswordOnly(el) == el.inputType = "password"

\* A mutation of IsFillableInput: password fields pass.
IsFillableInputOrPassword(el) ==
    /\ el.tag \in {"input", "textarea", "select"}
    /\ el.inputType # "file"

\* The filter shared by the three form paths.
IsFillableInput(el) ==
    /\ el.tag \in {"input", "textarea", "select"}
    /\ ~isPasswordOnly(el)
    /\ el.inputType # "file"

IsSubmitTyped(el) == el.inputType = "submit" \/ el.attributes["type"] = "submit"

IsButton(el) == el.tag = "button"

IsSubmitButton(el) == IsButton(el) /\ IsSubmitTyped(el)

IsOnSubmit(h) == h.event = "onSubmit"

\* elements.find(submit button) ?? elements.find(button), as a position (0: none).
SubmitButtonIndex(elements) ==
    LET s == FirstIndex(elements, IsSubmitButton)
    IN  IF s # 0 THEN s ELSE FirstIndex(elements, IsButton)

\* The same inside the form `formId` (path B).
FormSubmitButtonIndex(elements, formId) ==
    LET InForm(el) == /\ IsSubmitButton(el)
                      /\ (formId = undefined \/ el.parentFormId = formId)
        s == FirstIndex(elements, InForm)
    IN  IF s # 0 THEN s ELSE FirstIndex(elements, IsButton)

ElementAt(elements, i) == IF i = 0 THEN NoElement ELSE elements[i]

findHandlerForButton(btn, handlers) ==
    LET ById(h)  == h.elementId = btn.id /\ h.event = "onClick"
        ByTag(h) == h.event = "onClick" /\ h.elementTag = "button"
        byId  == IF Truthy(btn.id) THEN FirstIndex(handlers, ById) ELSE 0
        byTag == FirstIndex(handlers, ByTag)
    IN  IF byId # 0 THEN handlers[byId]
        ELSE IF byTag # 0 THEN handlers[byTag]
        ELSE NoHandler

\* Path A: one candidate per onSubmit handler.
SubmitHandlerCandidates(component) ==
    LET submitHandlers == SelectSeq(component.eventHandlers, IsOnSubmit)
        inputs         == SelectSeq(component.elements, IsFillableInput)
        submitBtn      == SubmitButtonIndex(component.elements)
    IN  [ i \in 1..Len(submitHandlers) |->
            ToolCandidate("form", component.name,
                          ElementAt(component.elements, submitBtn), inputs,
                          submitHandlers[i]) ]

\* Path B, per <form> element: the candidate of the form at position f, as a
\* sequence of zero or one candidates.
FormCandidate(component, f) ==
    LET formId == component.elements[f].id
        InThisForm(el) ==
            /\ IsFillableInput(el)
            /\ (formId = undefined \/ el.parentFormId = formId \/ el.parentFormId = undefined)
        inputs    == SelectSeq(component.elements, InThisForm)
        submitBtn == FormSubmitButtonIndex(component.elements, formId)
        h         == FirstIndex(component.eventHandlers, IsOnSubmit)
        handler   == IF h = 0 THEN NoHandler ELSE component.eventHandlers[h]
    IN  IF Len(inputs) > 0 \/ submitBtn # 0
        THEN << ToolCandidate("form", component.name,
                              ElementAt(component.elements, submitBtn), inputs, handler) >>
        ELSE <<>>

RECURSIVE FormCandidates(_, _)
FormCandidates(component, forms) ==
    IF Len(forms) = 0 THEN <<>>
    ELSE FormCandidate(component, Head(forms)) \o FormCandidates(component, Tail(forms))

\* Path B without any <form> element: one implicit group.
ImplicitFormCandidates(component) ==
    LET inputs    == SelectSeq(component.elements, IsFillableInput)
        submitBtn == SubmitButtonIndex(component.elements)
    IN  IF Len(inputs) > 0 /\ submitBtn # 0
        THEN << ToolCandidate("form", component.name,
                              component.elements[submitBtn], inputs, NoHandler) >>
        ELSE <<>>

FormIndices(component) ==
    IndicesFrom(Len(component.elements), 1,
                {i \in 1..Len(component.elements) : component.elements[i].tag = "form"})

\* The positions of the buttons the form paths have claimed (usedButtons; the
\* code keeps the element objects, which are distinct per position).
UsedButtons(component) ==
    LET forms == FormIndices(component)
    IN  IF \E i \in 1..Len(component.eventHandlers) : IsOnSubmit(component.eventHandlers[i])
        THEN {SubmitButtonIndex(component.elements)} \ {0}
        ELSE IF Len(forms) > 0
        THEN { FormSubmitButtonIndex(component.elements, component.elements[forms[k]].id) :
                 k \in 1..Len(forms) } \ {0}
        ELSE IF /\ Len(SelectSeq(component.elements, IsFillableInput)) > 0
                /\ SubmitButtonIndex(component.elements) # 0
        THEN {SubmitButtonIndex(component.elements)}
        ELSE {}

\* Group 2: the standalone buttons, in element order.
StandaloneButtonIndices(component) ==
    IndicesFrom(Len(component.elements), 1,
                { i \in 1..Len(component.elements) :
                    /\ IsButton(component.elements[i])
                    /\ component.elements[i].inputType # "submit"
                    /\ component.elements[i].attributes["type"] # "submit"
                    /\ i \notin UsedButtons(component) })

ActionCandidates(component) ==
    LET standalone == StandaloneButtonIndices(component)
    IN  [ k \in 1..Len(standalone) |->
            ToolCandidate("action", component.name, component.elements[standalone[k]],
                          <<>>,
                          findHandlerForButton(component.elements[standalone[k]],
                                               component.eventHandlers)) ]

groupIntoToolCandidates(component) ==
    LET forms == FormIndices(component)
        formBased ==
            IF \E i \in 1..Len(component.eventHandlers) :
                   IsOnSubmit(component.eventHandlers[i])
            THEN SubmitHandlerCandidates(component)
            ELSE IF Len(forms) > 0 THEN FormCandidates(component, forms)
            ELSE ImplicitFormCandidates(component)
    IN  formBased \o ActionCandidates(component)

-----------------------------------------------------------------------------
(* proposal/index.ts: name, description, schema, identity, stability *)

generateToolName(candidate) ==
    LET componentSlug == toSnakeCase(candidate.componentName)
        formLabel   == Coalesce(candidate.triggerElement.label, candidate.handler.name)
        actionLabel == Coalesce(candidate.triggerElement.label,
                           Coalesce(candidate.triggerElement.id, candidate.handler.name))
    IN  IF candidate.type = "form"
        THEN IF Truthy(formLabel)
             THEN toSnakeCase(formLabel) \o "_" \o componentSlug
             ELSE "submit_" \o componentSlug
        ELSE IF Truthy(actionLabel)
             THEN toSnakeCase(actionLabel)
             ELSE "action_in_" \o componentSlug

generateDescription(candidate) ==
    LET btnLabel == candidate.triggerElement.label
        names == [ i \in 1..Len(candidate.inputElements) |->
                    LET el == candidate.inputElements[i]
                    IN  Coalesce(el.label, Coalesce(el.name, Coalesce(el.id, el.tag))) ]
        kept   == SelectSeq(names, Truthy)
        fields == Join(SubSeq(kept, 1, IF Len(kept) < 3 THEN Len(kept) ELSE 3), ", ")
    IN  IF candidate.type = "form"
        THEN IF Truthy(btnLabel) /\ fields # ""
             THEN btnLabel \o " the form with: " \o fields
             ELSE IF Truthy(btnLabel)
             THEN btnLabel \o " the " \o candidate.componentName \o " form"
             ELSE "Fill and submit the " \o candidate.componentName \o " form"
        ELSE IF Truthy(btnLabel)
             THEN "Trigger: " \o btnLabel
             ELSE "Perform action in " \o candidate.componentName

mapInputTypeToJSONType(inputType) ==
    IF inputType \in {"number", "range"} THEN "number"
    ELSE IF inputType = "checkbox" THEN "boolean"
    ELSE "string"

\* The name under which buildSchema files an element, before normalisation.
SchemaFieldName(el) ==
    Coalesce(el.name, Coalesce(el.id, Coalesce(el.stateBinding, el.label)))

\* properties[safeKey] = prop on an object kept as its list of entries in
\* insertion order: a key already present keeps its place and takes the new value.
SetProperty(properties, entry) ==
    IF \E i \in 1..Len(properties) : properties[i].key = entry.key
    THEN [ i \in 1..Len(properties) |->
             IF properties[i].key = entry.key THEN entry ELSE properties[i] ]
    ELSE Append(properties, entry)

RECURSIVE SchemaFrom(_, _)
SchemaFrom(inputElements, schema) ==
    IF Len(inputElements) = 0 THEN schema
    ELSE LET el        == Head(inputElements)
             fieldName == SchemaFieldName(el)
             safeKey   == toSnakeCase(fieldName)
             base      == Coalesce(el.label,
                              Coalesce(el.ariaLabel,
                                  Coalesce(el.inputType, el.tag) \o " field"))
             entry == [ key         |-> safeKey,
                        type        |-> mapInputTypeToJSONType(Coalesce(el.inputType, "text")),
                        description |-> IF el.tag = "select"
                                        THEN base \o " (select field)" ELSE base ]
         IN  IF ~Truthy(fieldName)
             THEN SchemaFrom(Tail(inputElements), schema)
             ELSE SchemaFrom(Tail(inputElements),
                     [ properties |-> SetProperty(schema.properties, entry),
                       required   |-> IF el.required
                                      THEN Append(schema.required, safeKey)
                                      ELSE schema.required ])

buildSchema(candidate) ==
    SchemaFrom(candidate.inputElements, [properties |-> <<>>, required |-> <<>>])

\* The three parts generateToolId pushes for one input element.
IdPartsOfInput(el) ==
    << Coalesce(el.name, Coalesce(el.id, Coalesce(el.stateBinding, ""))),
       Coalesce(el.label, Coalesce(el.ariaLabel, "")),
       Coalesce(el.inputType, el.tag) >>

RECURSIVE IdPartsOfInputs(_)
IdPartsOfInputs(inputElements) ==
    IF Len(inputElements) = 0 THEN <<>>
    ELSE IdPartsOfInput(Head(inputElements)) \o IdPartsOfInputs(Tail(inputElements))

\* createHash('sha256').update(raw).digest('hex').slice(0, 12): the digest is
\* kept as a function of the hashed text and nothing else (two texts get the
\* same digest only if they are the same text).
Sha256Prefix(raw) == "sha256:" \o raw

\* A mutation of ToolIdText: the trigger's class attribute is hashed too.
ToolIdTextWithClass(candidate) ==
    toLowerCase(Join(<< candidate.componentName, candidate.type,
                        candidate.triggerElement.tag,
                        Coalesce(candidate.triggerElement.label, ""),
                        Coalesce(candidate.triggerElement.attributes["name"], ""),
                        Coalesce(candidate.triggerElement.attributes["class"], "") >>
                        \o IdPartsOfInputs(candidate.inputElements), "|"))

\* The text generateToolId hashes.
ToolIdText(candidate) ==
    LET trigger == IF HasTrigger(candidate)
                   THEN << candidate.triggerElement.tag,
                           Coalesce(candidate.triggerElement.label, ""),
                           Coalesce(candidate.triggerElement.attributes["name"], "") >>
                   ELSE <<>>
    IN  toLowerCase(Join(<<candidate.componentName, candidate.type>> \o trigger
                            \o IdPartsOfInputs(candidate.inputElements), "|"))

generateToolId(candidate) == Sha256Prefix(ToolIdText(candidate))

\* const threshold = 0.6, in hundredths
StabilityThreshold == 60

Stability(isStable, unstableReason) ==
    [isStable |-> isStable, unstableReason |-> unstableReason]

\* `!el.selectorFallback || el.selectorFallback.length === 0`
LacksSelector(el) ==
    el.selectorFallback = {} \/ el.selectorFallback = {<<>>}

SelectorList(el) == CHOOSE list \in el.selectorFallback : TRUE

\* A mutation of BelowThreshold: the comparison includes the threshold.
BelowOrAtThreshold(topScore) == topScore <= StabilityThreshold

\* `topScore < threshold`
BelowThreshold(topScore) == topScore < StabilityThreshold

\* The verdict on the first input element that fails a check, if any.  The
\* reason texts stop before the "(max confidence: ...)" suffix.
RECURSIVE InputsStability(_)
InputsStability(inputElements) ==
    IF Len(inputElements) = 0 THEN Stability(TRUE, undefined)
    ELSE LET el == Head(inputElements)
         IN  IF LacksSelector(el)
             THEN Stability(FALSE,
                     "Input field '" \o Coalesce(el.name, Coalesce(el.id, el.tag))
                         \o "' lacks a runtime selector")
             ELSE IF BelowThreshold(MaxScore(SelectorList(el)))
             THEN Stability(FALSE,
                     "Unstable selector for '"
                         \o Coalesce(el.name, Coalesce(el.label, el.tag)) \o "'")
             ELSE InputsStability(Tail(inputElements))

assessStability(candidate) ==
    LET inputs == InputsStability(candidate.inputElements)
        trg    == candidate.triggerElement
    IN  IF ~inputs.isStable THEN inputs
        ELSE IF ~HasTrigger(candidate) THEN Stability(TRUE, undefined)
        ELSE IF LacksSelector(trg)
        THEN Stability(FALSE, "Trigger button lacks a runtime selector")
        ELSE IF BelowThreshold(MaxScore(SelectorList(trg)))
        THEN Stability(FALSE, "Unstable trigger selector")
        ELSE Stability(TRUE, undefined)

-----------------------------------------------------------------------------
(* proposal/index.ts: buildProposals *)

\* A mutation of IsOmitted: nothing is omitted.
IsNeverOmitted(risk) == FALSE

\* `if (risk === 'excluded') continue`
IsOmitted(risk) == risk = "excluded"

\* A mutation of DefaultSelected: stability is ignored.
DefaultSelectedByRiskOnly(risk, isStable) == risk # "destructive"

\* `selected: risk !== 'destructive' && isStable !== false`
DefaultSelected(risk, isStable) == risk # "destructive" /\ isStable # FALSE

ToolProposal(candidate, classification, index) ==
    LET stability == assessStability(candidate)
    IN  [ index          |-> index,
          id             |-> generateToolId(candidate),
          name           |-> generateToolName(candidate),
          description    |-> generateDescription(candidate),
          risk           |-> classification.risk,
          riskReason     |-> classification.reason,
          isStable       |-> stability.isStable,
          unstableReason |-> stability.unstableReason,
          selected       |-> DefaultSelected(classification.risk, stability.isStable),
          inputSchema    |-> buildSchema(candidate),
          sourceMapping  |-> [ componentName  |-> candidate.componentName,
                               triggerElement |-> candidate.triggerElement,
                               inputElements  |-> candidate.inputElements,
                               handler        |-> candidate.handler ] ]

\* The inner loop.  acc.index is the counter `index`, acc.proposals the list.
RECURSIVE ProposalsFrom(_, _)
ProposalsFrom(candidates, acc) ==
    IF Len(candidates) = 0 THEN acc
    ELSE LET candidate      == Head(candidates)
             classification == classifyRisk(candidate.triggerElement, candidate.handler)
         IN  IF IsOmitted(classification.risk)
             THEN ProposalsFrom(Tail(candidates), acc)
             ELSE ProposalsFrom(Tail(candidates),
                     [ index     |-> acc.index + 1,
                       proposals |-> Append(acc.proposals,
                                        ToolProposal(candidate, classification, acc.index)) ])

\* The outer loop over analysis.components.
RECURSIVE ProposalsOfComponents(_, _)
ProposalsOfComponents(components, acc) ==
    IF Len(components) = 0 THEN acc
    ELSE ProposalsOfComponents(Tail(components),
             ProposalsFrom(groupIntoToolCandidates(Head(components)), acc))

buildProposals(analysis) ==
    ProposalsOfComponents(analysis.components, [index |-> 1, proposals |-> <<>>]).proposals

-----------------------------------------------------------------------------
(* classifier/matcher.ts *)

ProbeElement(tag, id, nameAttribute, inputType, accessibleName, role, selector, attributes) ==
    [ tag            |-> tag,
      id             |-> id,
      nameAttribute  |-> nameAttribute,
      inputType      |-> inputType,
      accessibleName |-> accessibleName,
      role           |-> role,
      selector       |-> selector,
      attributes     |-> attributes ]

SelectorStrategy(strategy, value, score) ==
    [strategy |-> strategy, value |-> value, score |-> score]

mapTagToRole(tag, inputType) ==
    IF tag = "button" THEN "button"
    ELSE IF tag = "select" THEN "combobox"
    ELSE IF tag = "textarea" THEN "textbox"
    ELSE IF tag = "input" /\ Coalesce(inputType, "") \in {"submit", "button", "reset"}
    THEN "button"
    ELSE IF /\ tag = "input"
            /\ (IF Truthy(inputType) THEN inputType ELSE "text")
                   \in {"text", "email", "password", "search", "url"}
    THEN "textbox"
    ELSE IF tag = "input" /\ inputType = "checkbox" THEN "checkbox"
    ELSE IF tag = "input" /\ inputType = "radio" THEN "radio"
    ELSE tag

\* The weighted sum, in hundredths, capped at 100.
calculateMatchScore(astEl, probeEl) ==
    LET astLabel   == toLowerCase(Coalesce(astEl.label, Coalesce(astEl.ariaLabel, "")))
        probeLabel == toLowerCase(probeEl.accessibleName)
        byId     == IF Truthy(astEl.id) /\ astEl.id = probeEl.id THEN 50 ELSE 0
        byName   == IF Truthy(astEl.name) /\ astEl.name = probeEl.nameAttribute THEN 40 ELSE 0
        byTestId == IF /\ Truthy(astEl.attributes["data-testid"])
                       /\ astEl.attributes["data-testid"] = probeEl.attributes["data-testid"]
                    THEN 60 ELSE 0
        byMcp    == IF /\ Truthy(astEl.attributes["data-mcp"])
                       /\ astEl.attributes["data-mcp"] = probeEl.attributes["data-mcp"]
                    THEN 80 ELSE 0
        byLabel  == IF astLabel # "" /\ probeLabel # ""
                    THEN IF astLabel = probeLabel THEN 40
                         ELSE IF Includes(probeLabel, astLabel) \/ Includes(astLabel, probeLabel)
                         THEN 20 ELSE 0
                    ELSE 0
        byRole   == IF mapTagToRole(astEl.tag, astEl.inputType) = probeEl.role THEN 20 ELSE 0
        score    == byId + byName + byTestId + byMcp + byLabel + byRole
    IN  IF score < 100 THEN score ELSE 100

\* Array.prototype.sort((a, b) => b.score - a.score): stable, descending.
RECURSIVE InsertByScore(_, _)
InsertByScore(sorted, s) ==
    IF Len(sorted) = 0 THEN <<s>>
    ELSE IF Head(sorted).score >= s.score
         THEN <<Head(sorted)>> \o InsertByScore(Tail(sorted), s)
         ELSE <<s>> \o sorted

RECURSIVE SortByScore(_)
SortByScore(strategies) ==
    IF Len(strategies) = 0 THEN <<>>
    ELSE InsertByScore(SortByScore(SubSeq(strategies, 1, Len(strategies) - 1)),
                       strategies[Len(strategies)])

\* Math.max(0.2, matchScore * 0.5), in hundredths.
CssScore(matchScore) ==
    IF (matchScore * 5) \div 10 > 20 THEN (matchScore * 5) \div 10 ELSE 20

synthesizeStrategies(probeEl, matchScore) ==
    SortByScore(
           (IF Truthy(probeEl.attributes["data-mcp"])
            THEN <<SelectorStrategy("mcp", probeEl.attributes["data-mcp"], 100)>> ELSE <<>>)
        \o (IF Truthy(probeEl.attributes["data-testid"])
            THEN <<SelectorStrategy("testid", probeEl.attributes["data-testid"], 90)>>
            ELSE <<>>)
        \o (IF Truthy(probeEl.accessibleName)
            THEN <<SelectorStrategy("label", probeEl.accessibleName, 80)>> ELSE <<>>)
        \o (IF Truthy(probeEl.role) /\ Truthy(probeEl.accessibleName)
            THEN <<SelectorStrategy("role", probeEl.role \o ":" \o probeEl.accessibleName, 60)>>
            ELSE <<>>)
        \o <<SelectorStrategy("css", probeEl.selector, CssScore(matchScore))>> )

\* The strategies fallbackToASTStrategies pushes, in push order.
ASTStrategies(astEl) ==
       (IF Truthy(astEl.id)
        THEN <<SelectorStrategy("css", "#" \o astEl.id, 50)>> ELSE <<>>)
    \o (IF Truthy(astEl.name)
        THEN <<SelectorStrategy("css", astEl.tag \o "[name=\"" \o astEl.name \o "\"]", 40)>>
        ELSE <<>>)
    \o (IF Truthy(astEl.attributes["data-testid"])
        THEN <<SelectorStrategy("testid", astEl.attributes["data-testid"], 90)>> ELSE <<>>)
    \o <<SelectorStrategy("css", astEl.tag, 10)>>

\* A mutation of fallbackToASTStrategies: the list is returned in push order.
fallbackToASTStrategiesUnsorted(astEl) == ASTStrategies(astEl)

fallbackToASTStrategies(astEl) == SortByScore(ASTStrategies(astEl))

\* The inner loop of matchElementsToProbe over the probe elements: best is
\* [match, score], match being a position in probeElements or 0 (null).
RECURSIVE BestMatch(_, _, _, _)
BestMatch(astEl, probeElements, k, best) ==
    IF k > Len(probeElements) THEN best
    ELSE LET score == calculateMatchScore(astEl, probeElements[k])
         IN  BestMatch(astEl, probeElements, k + 1,
                       IF score > best.score
                       THEN [match |-> k, score |-> score] ELSE best)

\* bestScore > 0.3, in hundredths
MatchThreshold == 30

\* The selectorFallback that matchElementsToProbe assigns to one element.
MatchedFallback(astEl, probeElements) ==
    LET best == BestMatch(astEl, probeElements, 1, [match |-> 0, score |-> 0])
    IN  IF best.match # 0 /\ best.score > MatchThreshold
        THEN synthesizeStrategies(probeElements[best.match], best.score)
        ELSE fallbackToASTStrategies(astEl)

\* matchElementsToProbe mutates the elements in place: the list afterwards.
matchElementsToProbe(astElements, probeElements) ==
    [ i \in 1..Len(astElements) |->
        [astElements[i] EXCEPT
            !.selectorFallback = {MatchedFallback(astElements[i], probeElements)}] ]

-----------------------------------------------------------------------------
(* SpecRisk: classifyRisk applied to bounded inputs *)

RiskLabels == {undefined, "Delete and Save", "Delete or navigate", "Search", "Save", "Click me"}
RiskNames == {undefined, "upload-file", "q"}
RiskIds == {undefined, "resetBtn"}

RiskTriggers ==
    {NoElement} \cup
    { UIElement("button", id, name, label, undefined, NoAttributes) :
        id \in RiskIds, name \in RiskNames, label \in RiskLabels }

RiskHandlerNames == {"handleClick", "handleRemove", "handleReset", "onUpdate", "openLink"}
RiskBodies == {undefined, "window.location.href = '/home'", "setOpen(true)"}
RiskApiCalls ==
    { <<>>,
      <<ApiCall("GET", "/api/items")>>,
      <<ApiCall("DELETE", "/api/items/1")>>,
      <<ApiCall("post", "/api/items")>>,
      <<ApiCall("PATCH", "/api/items/1"), ApiCall("delete", "/api/items/1")>> }

RiskHandlers ==
    {NoHandler} \cup
    { EventHandler(name, "onClick", "button", undefined, body, calls) :
        name \in RiskHandlerNames, body \in RiskBodies, calls \in RiskApiCalls }

RiskInit ==
    /\ riskIn \in [triggerElement : RiskTriggers, handler : RiskHandlers]
    /\ riskOut = NoClassification

RiskIdle ==
    /\ riskIn = [triggerElement |-> NoElement, handler |-> NoHandler]
    /\ riskOut = NoClassification

ClassifyRisk ==
    /\ riskOut = NoClassification
    /\ riskOut' = classifyRisk(riskIn.triggerElement, riskIn.handler)
    /\ UNCHANGED <<riskIn, stabVars, matchVars, idVars, probeVars, cliVars, laterVars>>

-----------------------------------------------------------------------------
(* SpecStability: assessStability applied to bounded candidates *)

\* At most this many input elements in a candidate given to assessStability.
MaxStabilityInputs == 2

Scored(score) == SelectorStrategy("css", "x", score)

\* Fallback lists as the matcher leaves them (sorted, highest first), the
\* absent and the empty list, and lists whose top score sits on either side of
\* the threshold.
StabilityFallbacks ==
    { {}, {<<>>},
      {<<Scored(59)>>}, {<<Scored(60)>>},
      {<<Scored(90), Scored(50), Scored(10)>>},
      {<<Scored(50), Scored(40), Scored(10)>>} }

StabilityInputs ==
    { [UIElement("input", undefined, "email", "Email", "email", NoAttributes)
          EXCEPT !.selectorFallback = f] : f \in StabilityFallbacks }

StabilityTriggers ==
    {NoElement} \cup
    { [UIElement("button", undefined, undefined, "Send", undefined, NoAttributes)
          EXCEPT !.selectorFallback = f] : f \in StabilityFallbacks }

SeqsUpTo(S, n) == UNION { [1..k -> S] : k \in 0..n }

StabilityInit ==
    /\ \E inputs \in SeqsUpTo(StabilityInputs, MaxStabilityInputs) :
       \E trigger \in StabilityTriggers :
          stabIn = ToolCandidate("form", "ContactForm", trigger, inputs, NoHandler)
    /\ stabOut = {}

StabilityIdle ==
    /\ stabIn = ToolCandidate("form", "ContactForm", NoElement, <<>>, NoHandler)
    /\ stabOut = {}

AssessStability ==
    /\ stabOut = {}
    /\ stabOut' = {assessStability(stabIn)}
    /\ UNCHANGED <<stabIn, riskVars, matchVars, idVars, probeVars, cliVars, laterVars>>

-----------------------------------------------------------------------------
(* SpecMatch: matchElementsToProbe applied to bounded element lists *)

\* At most this many static elements, and this many probe elements.
MaxStaticElements == 2
MaxProbeElements == 2

Attrs(testid, mcp) ==
    [a \in AttributeNames |->
        IF a = "data-testid" THEN testid ELSE IF a = "data-mcp" THEN mcp ELSE undefined]

MatchStaticPool ==
    { UIElement("input", "email", "email", "Email", "email", Attrs("email-input", undefined)),
      UIElement("input", undefined, "q", undefined, "search", NoAttributes),
      UIElement("button", "saveBtn", undefined, "Save", undefined, Attrs(undefined, "save")),
      UIElement("button", undefined, undefined, "Delete Account", undefined, NoAttributes),
      UIElement("select", undefined, undefined, undefined, undefined, NoAttributes) }

MatchProbePool ==
    { ProbeElement("input", "email", "email", "email", "Email", "textbox",
                   "[data-testid=\"email-input\"]", Attrs("email-input", undefined)),
      ProbeElement("button", "saveBtn", undefined, undefined, "Save", "button",
                   "[data-mcp=\"save\"]", Attrs(undefined, "save")),
      ProbeElement("button", undefined, undefined, undefined, "Delete", "button",
                   "button", NoAttributes),
      ProbeElement("div", undefined, undefined, undefined, "", "dialog",
                   "div", NoAttributes) }

MatchInit ==
    /\ matchElements \in SeqsUpTo(MatchStaticPool, MaxStaticElements)
    /\ matchProbe \in SeqsUpTo(MatchProbePool, MaxProbeElements)
    /\ matchDone = FALSE

MatchIdle ==
    /\ matchElements = <<>>
    /\ matchProbe = <<>>
    /\ matchDone = FALSE

MatchElementsToProbe ==
    /\ ~matchDone
    /\ matchElements' = matchElementsToProbe(matchElements, matchProbe)
    /\ matchDone' = TRUE
    /\ UNCHANGED <<matchProbe, riskVars, stabVars, idVars, probeVars, cliVars, laterVars>>

-----------------------------------------------------------------------------
(* SpecId: generateToolId applied to two bounded candidates *)

ClassAttr(class) == [a \in AttributeNames |-> IF a = "class" THEN class ELSE undefined]

IdClasses == {undefined, "form-control"}

\* Inputs that differ in what the id is meant to see (name, id, label,
\* subtype) and in what it is meant to ignore (class).
IdInputs ==
    { UIElement("input", id, name, label, inputType, ClassAttr(class)) :
        id \in {undefined, "field1"}, name \in {undefined, "userName", "username"},
        label \in {undefined, "User name"}, inputType \in {undefined, "text"},
        class \in IdClasses }

IdEmailInput == UIElement("input", undefined, "email", "Email", "email", NoAttributes)

IdInputLists ==
    {<<>>} \cup { <<e>> : e \in IdInputs }
           \cup { <<IdEmailInput, [IdEmailInput EXCEPT !.attributes = ClassAttr(class)]>> :
                    class \in IdClasses }

\* Triggers that differ in class, in enclosing form and in selector list only.
IdTriggers ==
    { NoElement,
      UIElement("button", undefined, undefined, "Save", undefined, ClassAttr("btn")),
      [UIElement("button", undefined, undefined, "Save", undefined, ClassAttr("btn-primary"))
          EXCEPT !.parentFormId = "settings",
                 !.selectorFallback = {<<SelectorStrategy("label", "Save", 80)>>}] }

IdCandidates ==
    { ToolCandidate("form", "SettingsForm", trigger, inputs, NoHandler) :
        trigger \in IdTriggers, inputs \in IdInputLists }

IdInit ==
    /\ idIn \in [a : IdCandidates, b : IdCandidates]
    /\ idOut = {}

IdIdle ==
    /\ idIn = [ a |-> ToolCandidate("form", "SettingsForm", NoElement, <<>>, NoHandler),
                b |-> ToolCandidate("form", "SettingsForm", NoElement, <<>>, NoHandler) ]
    /\ idOut = {}

GenerateToolIds ==
    /\ idOut = {}
    /\ idOut' = {[a |-> generateToolId(idIn.a), b |-> generateToolId(idIn.b)]}
    /\ UNCHANGED <<idIn, riskVars, stabVars, matchVars, probeVars, cliVars, laterVars>>

-----------------------------------------------------------------------------
(* probe/runtime-probe.ts: runProbe, one action per await *)

\* options.timeoutMs ?? 10000
DefaultTimeoutMs == 10000

\* options.headless ?? true, options.timeoutMs ?? 10000; an absent option is {}.
ProbeHeadless == IF probeOptions.headless = {} THEN TRUE
                 ELSE CHOOSE h \in probeOptions.headless : TRUE
ProbeTimeout == IF probeOptions.timeoutMs = {} THEN DefaultTimeoutMs
                ELSE CHOOSE t \in probeOptions.timeoutMs : TRUE

ProbeDoms ==
    { <<>> } \cup { <<e>> : e \in MatchProbePool }
             \cup { <<a, b>> : a \in MatchProbePool, b \in MatchProbePool }

ProbeOptionSets ==
    [ headless    : {{}, {TRUE}, {FALSE}},
      timeoutMs   : {{}, {5000}},
      setupScript : {undefined, "document.querySelector('#open-modal').click()"} ]

ProbeResult(kind, elements) == [kind |-> kind, elements |-> elements]

ProbeInit ==
    /\ probeOptions \in ProbeOptionSets
    /\ probeDom \in ProbeDoms
    /\ probePc = "launch"
    /\ probeBrowser = "null"
    /\ probeCompletion = "none"
    /\ probeSettled = {}

ProbeIdle ==
    /\ probeOptions = [headless |-> {}, timeoutMs |-> {}, setupScript |-> undefined]
    /\ probeDom = <<>>
    /\ probePc = "launch"
    /\ probeBrowser = "null"
    /\ probeCompletion = "none"
    /\ probeSettled = {}

ProbeOthers == <<riskVars, stabVars, matchVars, idVars, cliVars, laterVars>>

\* An await inside the try block rejects: control passes to the finally block.
ProbeThrowAt(step) ==
    /\ probeCompletion' = "throw at " \o step
    /\ probePc' = "finally"

\* browser = await chromium.launch({ headless })
ProbeLaunch ==
    /\ probePc = "launch"
    /\ \/ /\ probeBrowser' = "open"
          /\ probePc' = "newContext"
          /\ UNCHANGED probeCompletion
       \/ /\ ProbeThrowAt("launch")
          /\ UNCHANGED probeBrowser
    /\ UNCHANGED <<probeOptions, probeDom, probeSettled, ProbeOthers>>

\* const context = await browser.newContext()
ProbeNewContext ==
    /\ probePc = "newContext"
    /\ \/ probePc' = "newPage" /\ UNCHANGED probeCompletion
       \/ ProbeThrowAt("newContext")
    /\ UNCHANGED <<probeOptions, probeDom, probeBrowser, probeSettled, ProbeOthers>>

\* const page = await context.newPage()
ProbeNewPage ==
    /\ probePc = "newPage"
    /\ \/ probePc' = "goto" /\ UNCHANGED probeCompletion
       \/ ProbeThrowAt("newPage")
    /\ UNCHANGED <<probeOptions, probeDom, probeBrowser, probeSettled, ProbeOthers>>

\* await page.goto(url, { waitUntil: 'load', timeout }): loads, or rejects on a
\* navigation error or after `timeout` ms.
ProbeGoto ==
    /\ probePc = "goto"
    /\ \/ probePc' = "settle" /\ UNCHANGED probeCompletion
       \/ ProbeThrowAt("goto")
    /\ UNCHANGED <<probeOptions, probeDom, probeBrowser, probeSettled, ProbeOthers>>

\* await page.waitForTimeout(500), then the `if (options.setupScript)` test
ProbeSettle ==
    /\ probePc = "settle"
    /\ probePc' = IF Truthy(probeOptions.setupScript) THEN "setup" ELSE "extract"
    /\ UNCHANGED <<probeOptions, probeDom, probeBrowser, probeCompletion, probeSettled,
                   ProbeOthers>>

\* await page.evaluate(options.setupScript)
ProbeSetup ==
    /\ probePc = "setup"
    /\ \/ probePc' = "settleAfterSetup" /\ UNCHANGED probeCompletion
       \/ ProbeThrowAt("setup")
    /\ UNCHANGED <<probeOptions, probeDom, probeBrowser, probeSettled, ProbeOthers>>

\* await page.waitForTimeout(500) after the setup script
ProbeSettleAfterSetup ==
    /\ probePc = "settleAfterSetup"
    /\ probePc' = "extract"
    /\ UNCHANGED <<probeOptions, probeDom, probeBrowser, probeCompletion, probeSettled,
                   ProbeOthers>>

\* const elements = await page.evaluate(extractDOMState); return {...}
ProbeExtract ==
    /\ probePc = "extract"
    /\ \/ probeCompletion' = "return" /\ probePc' = "finally"
       \/ ProbeThrowAt("extract")
    /\ UNCHANGED <<probeOptions, probeDom, probeBrowser, probeSettled, ProbeOthers>>

\* A mutation of BrowserAfterFinally: the browser is closed on the return path
\* only (the close sits at the end of the try block).
BrowserClosedOnReturnOnly(browser, completion) ==
    IF browser = "open" /\ completion = "return" THEN "closed" ELSE browser

\* finally { if (browser) await browser.close() }
BrowserAfterFinally(browser, completion) ==
    IF browser # "null" THEN "closed" ELSE browser

\* The finally block, after which the promise settles with the try block's
\* completion.
ProbeFinally ==
    /\ probePc = "finally"
    /\ probeBrowser' = BrowserAfterFinally(probeBrowser, probeCompletion)
    /\ probeSettled' = IF probeCompletion = "return"
                       THEN {ProbeResult("returned", probeDom)}
                       ELSE {ProbeResult("threw", <<>>)}
    /\ probePc' = "settled"
    /\ UNCHANGED <<probeOptions, probeDom, probeCompletion, ProbeOthers>>

ProbeNext ==
    \/ ProbeLaunch \/ ProbeNewContext \/ ProbeNewPage \/ ProbeGoto \/ ProbeSettle
    \/ ProbeSetup \/ ProbeSettleAfterSetup \/ ProbeExtract \/ ProbeFinally

-----------------------------------------------------------------------------
(* The CLI: instrumentCommand *)

\* At most this many elements in the parsed component.
MaxElements == 2

FullAttrs(type, testid, mcp) ==
    [a \in AttributeNames |->
        IF a = "type" THEN type
        ELSE IF a = "data-testid" THEN testid
        ELSE IF a = "data-mcp" THEN mcp
        ELSE undefined]

EmailInput ==
    [UIElement("input", "email", "email", "Email", "email",
               FullAttrs("email", "email-input", undefined)) EXCEPT !.required = TRUE]
SaveButton ==
    UIElement("button", undefined, undefined, "Save Changes", "submit",
              FullAttrs("submit", undefined, undefined))
DeleteButton ==
    UIElement("button", "deleteBtn", undefined, "Delete Account", undefined, NoAttributes)
LinkButton ==
    UIElement("button", undefined, undefined, "Open link", undefined, NoAttributes)
RefreshButton ==
    UIElement("button", undefined, undefined, "Refresh", undefined,
              FullAttrs(undefined, undefined, "refresh"))

CliElementPool == {EmailInput, SaveButton, DeleteButton, LinkButton, RefreshButton}

SubmitHandler ==
    EventHandler("handleSubmit", "onSubmit", "form", undefined,
                 "await fetch('/api/profile', { method: 'POST' })",
                 <<ApiCall("POST", "/api/profile")>>)
DeleteHandler ==
    EventHandler("handleDelete", "onClick", "button", "deleteBtn",
                 "await fetch('/api/account', { method: 'DELETE' })",
                 <<ApiCall("DELETE", "/api/account")>>)

CliHandlerLists == { <<>>, <<SubmitHandler>>, <<DeleteHandler>> }

\* The element lists a parse can yield: distinct elements, in any order.
CliElementLists ==
    { l \in SeqsUpTo(CliElementPool, MaxElements) :
        \A i, j \in 1..Len(l) : i # j => l[i] # l[j] }

NavBar == ComponentInfo("NavBar", <<RefreshButton, LinkButton>>, <<>>)

Analysis(framework, components) == [framework |-> framework, components |-> components]

\* A file with one component, or with a navigation bar before it.
CliAnalyses ==
    { Analysis("react", prefix \o <<ComponentInfo("SettingsPage", elements, handlers)>>) :
        prefix \in {<<>>, <<NavBar>>}, elements \in CliElementLists,
        handlers \in CliHandlerLists }

ProbedEmail ==
    ProbeElement("input", "email", "email", "email", "Email", "textbox",
                 "[data-testid=\"email-input\"]", Attrs("email-input", undefined))
ProbedDelete ==
    ProbeElement("button", "deleteBtn", undefined, undefined, "Delete Account", "button",
                 "#deleteBtn", NoAttributes)
ProbedRefresh ==
    ProbeElement("button", undefined, undefined, undefined, "Refresh", "button",
                 "[data-mcp=\"refresh\"]", Attrs(undefined, "refresh"))
ProbedAnonymous ==
    ProbeElement("button", undefined, undefined, undefined, "", "button",
                 "button", NoAttributes)

\* What the page can render: nothing interactive, one unnamed button, or the
\* inputs and buttons of the component except the submit button.
CliDoms == { <<>>, <<ProbedAnonymous>>, <<ProbedEmail, ProbedDelete, ProbedRefresh>> }

\* The options that decide the control flow; `select` is {} when --select is
\* absent and {indices} when given.
CliOption(dryRun, yes, all, select) ==
    [dryRun |-> dryRun, yes |-> yes, all |-> all, select |-> select]

CliOptionSets ==
    { CliOption(TRUE, FALSE, FALSE, {}),
      CliOption(FALSE, TRUE, FALSE, {}),
      CliOption(FALSE, FALSE, TRUE, {}),
      CliOption(FALSE, FALSE, FALSE, {{1, 3}}),
      CliOption(FALSE, FALSE, FALSE, {}) }

NoAnalysis == Analysis(undefined, <<>>)

CliInit ==
    /\ cliPc = "start"
    /\ cliOptions \in CliOptionSets
    /\ cliAnalysis = NoAnalysis
    /\ cliProbeElements = <<>>
    /\ cliProposals = <<>>
    /\ cliSelected = <<>>

CliIdle ==
    /\ cliPc = "start"
    /\ cliOptions = CliOption(FALSE, FALSE, FALSE, {})
    /\ cliAnalysis = NoAnalysis
    /\ cliProbeElements = <<>>
    /\ cliProposals = <<>>
    /\ cliSelected = <<>>

CliOthers == <<riskVars, stabVars, matchVars, idVars, probeVars, laterVars>>

\* Steps 1 and 3 failing: file not found, unsupported extension, unreadable file.
CliRejectFile ==
    /\ cliPc = "start"
    /\ cliPc' = "exit 1"
    /\ UNCHANGED <<cliOptions, cliAnalysis, cliProbeElements, cliProposals, cliSelected, CliOthers>>

\* Steps 1 to 3: const analysis = parseFile(source, basename(filePath))
CliParse ==
    /\ cliPc = "start"
    /\ cliAnalysis' \in CliAnalyses
    /\ cliPc' = "probe"
    /\ UNCHANGED <<cliOptions, cliProbeElements, cliProposals, cliSelected, CliOthers>>

\* Step 4: try { probeElements = (await runProbe(...)).elements } catch { warn }
CliProbe ==
    /\ cliPc = "probe"
    /\ \/ cliProbeElements' \in CliDoms
       \/ cliProbeElements' = <<>>
    /\ cliPc' = "match"
    /\ UNCHANGED <<cliOptions, cliAnalysis, cliProposals, cliSelected, CliOthers>>

\* matchElementsToProbe(analysis.components.flatMap(c => c.elements), probe):
\* the elements are mutated where they sit in their components.
MatchedAnalysis(a, probe) ==
    [a EXCEPT !.components =
        [ i \in 1..Len(a.components) |->
            [a.components[i] EXCEPT
                !.elements = matchElementsToProbe(a.components[i].elements, probe)] ]]

\* Step 5: if (probeElements.length > 0) { matchElementsToProbe(...) }
AnalysisAfterMatchStep(a, probe) ==
    IF Len(probe) > 0 THEN MatchedAnalysis(a, probe) ELSE a

CliMatch ==
    /\ cliPc = "match"
    /\ cliAnalysis' = AnalysisAfterMatchStep(cliAnalysis, cliProbeElements)
    /\ cliPc' = "build"
    /\ UNCHANGED <<cliOptions, cliProbeElements, cliProposals, cliSelected, CliOthers>>

\* Step 6: const proposals = buildProposals(analysis), the empty-result return
\* and the dry-run return.
CliBuild ==
    /\ cliPc = "build"
    /\ cliProposals' = buildProposals(cliAnalysis)
    /\ cliPc' = IF Len(cliProposals') = 0 THEN "return: nothing found"
                ELSE IF cliOptions.dryRun THEN "return: dry run"
                ELSE "select"
    /\ UNCHANGED <<cliOptions, cliAnalysis, cliProbeElements, cliSelected, CliOthers>>

\* proposals.filter(p => indices.includes(p.index))
WithIndexIn(list, indices) ==
    LET Chosen(p) == p.index \in indices IN SelectSeq(list, Chosen)

\* --yes: proposals.filter(p => p.risk !== 'destructive' && p.risk !== 'excluded')
AutoSelected(list) ==
    LET Kept(p) == p.risk # "destructive" /\ p.risk # "excluded" IN SelectSeq(list, Kept)

\* --all: proposals.filter(p => p.risk !== 'excluded')
AllSelected(list) ==
    LET Kept(p) == p.risk # "excluded" IN SelectSeq(list, Kept)

\* "6. Select tools": --yes, --all, --select, or the interactive checkbox
\* picker, in which the user may tick any of the offered indices.
CliSelect ==
    /\ cliPc = "select"
    /\ \/ /\ cliOptions.yes
          /\ cliSelected' = AutoSelected(cliProposals)
       \/ /\ ~cliOptions.yes /\ cliOptions.all
          /\ cliSelected' = AllSelected(cliProposals)
       \/ /\ ~cliOptions.yes /\ ~cliOptions.all /\ cliOptions.select # {}
          /\ \E indices \in cliOptions.select :
                cliSelected' = WithIndexIn(cliProposals, indices)
       \/ /\ ~cliOptions.yes /\ ~cliOptions.all /\ cliOptions.select = {}
          /\ \E ticked \in SUBSET {AllSelected(cliProposals)[i].index :
                                     i \in 1..Len(AllSelected(cliProposals))} :
                cliSelected' = WithIndexIn(cliProposals, ticked)
    /\ cliPc' = IF Len(cliSelected') = 0 THEN "return: nothing cliSelected" ELSE "generate"
    /\ UNCHANGED <<cliOptions, cliAnalysis, cliProbeElements, cliProposals, CliOthers>>

\* Steps 7 and 8: code = await generateMCPCode(selected, ...), written to the
\* output path; a generation error exits.
CliGenerate ==
    /\ cliPc = "generate"
    /\ \/ cliPc' = "written"
       \/ cliPc' = "exit 1"
    /\ UNCHANGED <<cliOptions, cliAnalysis, cliProbeElements, cliProposals, cliSelected, CliOthers>>

CliNext ==
    \/ CliRejectFile \/ CliParse \/ CliProbe \/ CliMatch \/ CliBuild \/ CliSelect
    \/ CliGenerate

-----------------------------------------------------------------------------
(* cache/hash.ts: hashInteractiveSurface *)

\* JSON.stringify of a string: quotes and backslashes are escaped.
RECURSIVE JsonEscape(_)
JsonEscape(s) ==
    IF s = "" THEN ""
    ELSE LET c == SubSeq(s, 1, 1)
         IN  (IF c = "\"" THEN "\\\"" ELSE IF c = "\\" THEN "\\\\" ELSE c)
                 \o JsonEscape(SubSeq(s, 2, Len(s)))

JsonString(s) == "\"" \o JsonEscape(s) \o "\""

\* A property whose value is undefined is left out of the object.
JsonMember(key, json) ==
    IF json = undefined THEN undefined ELSE JsonString(key) \o ":" \o json

JsonOptionalString(s) == IF s = undefined THEN undefined ELSE JsonString(s)

JsonObject(members) ==
    LET Present(m) == m # undefined
    IN  "{" \o Join(SelectSeq(members, Present), ",") \o "}"

JsonArray(items) == "[" \o Join(items, ",") \o "]"

JsonBoolean(b) == IF b THEN "true" ELSE "false"

\* { t: el.tag, n: el.name, i: el.inputType, l: el.label, s: el.stateBinding != null }
InputSignature(el) ==
    JsonObject(<< JsonMember("t", JsonOptionalString(el.tag)),
                  JsonMember("n", JsonOptionalString(el.name)),
                  JsonMember("i", JsonOptionalString(el.inputType)),
                  JsonMember("l", JsonOptionalString(el.label)),
                  JsonMember("s", JsonBoolean(el.stateBinding # undefined)) >>)

\* { t: trigger.tag, n: trigger.name, l: trigger.label }, or null
TriggerSignature(el) ==
    IF el.tag = undefined THEN "null"
    ELSE JsonObject(<< JsonMember("t", JsonOptionalString(el.tag)),
                       JsonMember("n", JsonOptionalString(el.name)),
                       JsonMember("l", JsonOptionalString(el.label)) >>)

\* { n: handler.name, ev: handler.event }, or null
HandlerSignature(h) ==
    IF h.name = undefined THEN "null"
    ELSE JsonObject(<< JsonMember("n", JsonOptionalString(h.name)),
                       JsonMember("ev", JsonOptionalString(h.event)) >>)

\* tool.inputSchema: { type: 'object', properties, required }
SchemaSignature(schema) ==
    JsonObject(<< JsonMember("type", JsonString("object")),
                  JsonMember("properties",
                      JsonObject([ i \in 1..Len(schema.properties) |->
                          JsonMember(schema.properties[i].key,
                              JsonObject(<< JsonMember("type",
                                                JsonString(schema.properties[i].type)),
                                            JsonMember("description",
                                                JsonString(schema.properties[i].description))
                                         >>)) ])),
                  JsonMember("required",
                      JsonArray([ i \in 1..Len(schema.required) |->
                                     JsonString(schema.required[i]) ])) >>)

\* A mutation of SurfaceSignature: the trigger's class attribute is part of
\* the signature.
SurfaceSignatureWithClass(tool) ==
    JsonObject(<< JsonMember("c", JsonString(tool.sourceMapping.componentName)),
                  JsonMember("e",
                      JsonArray([ i \in 1..Len(tool.sourceMapping.inputElements) |->
                                     InputSignature(tool.sourceMapping.inputElements[i]) ])),
                  JsonMember("t", TriggerSignature(tool.sourceMapping.triggerElement)),
                  JsonMember("k", JsonOptionalString(
                                      tool.sourceMapping.triggerElement.attributes["class"])),
                  JsonMember("h", HandlerSignature(tool.sourceMapping.handler)),
                  JsonMember("schema", SchemaSignature(tool.inputSchema)) >>)

\* JSON.stringify(signature)
SurfaceSignature(tool) ==
    JsonObject(<< JsonMember("c", JsonString(tool.sourceMapping.componentName)),
                  JsonMember("e",
                      JsonArray([ i \in 1..Len(tool.sourceMapping.inputElements) |->
                                     InputSignature(tool.sourceMapping.inputElements[i]) ])),
                  JsonMember("t", TriggerSignature(tool.sourceMapping.triggerElement)),
                  JsonMember("h", HandlerSignature(tool.sourceMapping.handler)),
                  JsonMember("schema", SchemaSignature(tool.inputSchema)) >>)

\* createHash('sha256').update(text).digest('hex'): the digest is kept as a
\* function of the hashed text and nothing else.
Sha256Hex(text) == "sha256:" \o text

hashInteractiveSurface(tool) == Sha256Hex(SurfaceSignature(tool))

-----------------------------------------------------------------------------
(* cache/index.ts: the incremental cache *)

\* What getCachedHandler returns when there is no entry.
null == "<null>"

\* A JSON document, as the cache code can tell documents apart: null, a falsy
\* primitive (0, false, ""), a truthy primitive ("x", 42, true), an array, or
\* an object.  `entries` are the own properties the cache has read or written:
\* hash -> { handlerBody, timestamp }.  The timestamp is never read back and is
\* left out.
JsonValue(kind, entries) == [kind |-> kind, entries |-> entries]

JsonNull == JsonValue("null", {})

CacheEntry(hash, handlerBody) == [hash |-> hash, handlerBody |-> handlerBody]

\* `if (inMemoryCache)`
IsTruthyJson(value) == value.kind \in {"primitive", "array", "object"}

\* JSON.parse(readFileSync(CACHE_FILE)): the document the text denotes.
JsonParse(file) == JsonValue(file.kind, file.entries)

\* JSON.stringify(cache, null, 2): of an array only the indexed items are
\* written, the properties added under a hash are not.
JsonStringify(value) ==
    IF value.kind = "array" THEN JsonValue("array", {}) ELSE value

\* The calls loadCache can end a process on: none ("threw" is FALSE always).
\* cache: the value returned; read: 1 if readFileSync was called.
loadCache(memory, file) ==
    IF IsTruthyJson(memory) THEN [cache |-> memory, read |-> 0]
    ELSE IF file.kind = "absent" THEN [cache |-> JsonValue("object", {}), read |-> 0]
    ELSE IF file.kind \in {"unreadable", "malformed"}
         THEN [cache |-> JsonValue("object", {}), read |-> 1]
    ELSE [cache |-> JsonParse(file), read |-> 1]

\* cache[hash]
EntryAt(cache, hash) == { e \in cache.entries : e.hash = hash }

\* cache[hash] = { handlerBody, timestamp }
WithEntry(cache, hash, handlerBody) ==
    [cache EXCEPT !.entries =
        { e \in cache.entries : e.hash # hash } \cup {CacheEntry(hash, handlerBody)}]

\* Reading a property of null throws a TypeError.
ReadThrows(cache) == cache.kind = "null"

\* Writing a property of null throws, and so does, in module (strict) code,
\* creating a property on a primitive.
WriteThrows(cache) == cache.kind \in {"null", "falsy", "primitive"}

CacheCall(op, tool, handlerBody, outcome, value) ==
    [op |-> op, tool |-> tool, handlerBody |-> handlerBody, outcome |-> outcome,
     value |-> value]

\* At most this many reads of the cache file are followed.
MaxCacheReads == 2

BaseTool ==
    ToolProposal(ToolCandidate("form", "SettingsForm",
                     UIElement("button", undefined, undefined, "Save", undefined,
                               ClassAttr("btn")),
                     <<IdEmailInput>>, SubmitHandler),
                 RiskClassification("caution", "Handler makes POST API call"), 1)

\* The same tool after a restyling: other classes, another place in the file
\* and in the proposal list, selectors attached by the matcher.
RestyledTool ==
    [ToolProposal(ToolCandidate("form", "SettingsForm",
                     [UIElement("button", undefined, undefined, "Save", undefined,
                                ClassAttr("btn-primary"))
                         EXCEPT !.parentFormId = "settings",
                                !.selectorFallback =
                                    {<<SelectorStrategy("label", "Save", 80)>>}],
                     <<[IdEmailInput EXCEPT !.attributes = ClassAttr("form-control")]>>,
                     SubmitHandler),
                 RiskClassification("caution", "Handler makes POST API call"), 2)
        EXCEPT !.description = "Save the restyled form"]

RelabelledTool ==
    ToolProposal(ToolCandidate("form", "SettingsForm",
                     UIElement("button", undefined, undefined, "Save", undefined,
                               ClassAttr("btn")),
                     <<[IdEmailInput EXCEPT !.label = "E-mail \"address\""]>>, SubmitHandler),
                 RiskClassification("caution", "Handler makes POST API call"), 1)

\* The same form in another page: the trigger carries an id and a test hook.
RewiredTool ==
    ToolProposal(ToolCandidate("form", "SettingsForm",
                     UIElement("button", "saveBtn", undefined, "Save", undefined,
                               FullAttrs(undefined, "save-settings", undefined)),
                     <<IdEmailInput>>, SubmitHandler),
                 RiskClassification("caution", "Handler makes POST API call"), 1)

DeleteTool ==
    ToolProposal(ToolCandidate("action", "SettingsForm", DeleteButton, <<>>, DeleteHandler),
                 RiskClassification("destructive", "Handler makes DELETE API call"), 2)

CacheTools == {BaseTool, RestyledTool, RelabelledTool, RewiredTool, DeleteTool}

CacheBodies == {"return submit();", ""}

\* What .webmcp/cache.json can hold when the process starts.
CacheFiles ==
    { JsonValue(kind, {}) :
        kind \in {"absent", "unreadable", "malformed", "null", "falsy", "primitive",
                  "array", "object"} }
    \cup { JsonValue("object", {CacheEntry(hashInteractiveSurface(BaseTool), "return old();")}) }

CacheInit ==
    /\ cacheFile \in CacheFiles
    /\ inMemoryCache = JsonNull
    /\ cacheReads = 0
    /\ cacheStored = { e.hash : e \in cacheFile.entries }
    /\ cacheLast = CacheCall("none", {}, undefined, "none", undefined)

CacheIdle ==
    /\ cacheFile = JsonValue("absent", {})
    /\ inMemoryCache = JsonNull
    /\ cacheReads = 0
    /\ cacheStored = {}
    /\ cacheLast = CacheCall("none", {}, undefined, "none", undefined)

CacheOthers == <<earlierVars, walkVars, handlerVars, groupVars, viteVars, webhookVars, findVars, runtimeVars, pairVars, keysVars, namesVars>>

\* A mutation of CacheKey: the key sees the trigger's class attribute.
CacheKeyWithClass(tool) == Sha256Hex(SurfaceSignatureWithClass(tool))

\* const hash = hashInteractiveSurface(tool)
CacheKey(tool) == hashInteractiveSurface(tool)

\* getCachedHandler(tool) with `inMemoryCache` = memory and the file as given:
\* what the call does to the module variable, whether it reads the file, and
\* how it ends.
getCachedHandler(memory, file, tool) ==
    LET loaded == loadCache(memory, file)
        cache  == loaded.cache
        entry  == EntryAt(cache, CacheKey(tool))
    IN  [ memory  |-> cache,
          read    |-> loaded.read,
          outcome |-> IF ReadThrows(cache) THEN "threw" ELSE "returned",
          value   |-> IF ReadThrows(cache) THEN undefined
                      ELSE IF entry # {} THEN (CHOOSE e \in entry : TRUE).handlerBody
                      ELSE null ]

GetCachedHandler(tool) ==
    LET call == getCachedHandler(inMemoryCache, cacheFile, tool)
    IN  /\ cacheReads + call.read <= MaxCacheReads
        /\ cacheReads' = cacheReads + call.read
        /\ inMemoryCache' = call.memory
        /\ cacheLast' = CacheCall("get", {tool}, undefined, call.outcome, call.value)
        /\ UNCHANGED <<cacheFile, cacheStored, CacheOthers>>

\* setCachedHandler(tool, handlerBody), saveCache included
SetCachedHandler(tool, handlerBody) ==
    LET loaded == loadCache(inMemoryCache, cacheFile)
        cache  == loaded.cache
        stored == WithEntry(cache, CacheKey(tool), handlerBody)
    IN  /\ cacheReads + loaded.read <= MaxCacheReads
        /\ cacheReads' = cacheReads + loaded.read
        /\ IF WriteThrows(cache)
           THEN /\ inMemoryCache' = cache
                /\ cacheLast' = CacheCall("set", {tool}, handlerBody, "threw", undefined)
                /\ UNCHANGED <<cacheFile, cacheStored>>
           ELSE /\ inMemoryCache' = stored
                /\ cacheFile' = JsonStringify(stored)
                /\ cacheStored' = cacheStored \cup {CacheKey(tool)}
                /\ cacheLast' = CacheCall("set", {tool}, handlerBody, "returned", undefined)
        /\ UNCHANGED CacheOthers

CacheGet == \E tool \in CacheTools : GetCachedHandler(tool)

CacheSet == \E tool \in CacheTools, handlerBody \in CacheBodies :
                SetCachedHandler(tool, handlerBody)

CacheNext == CacheGet \/ CacheSet

-----------------------------------------------------------------------------
(* The parsers' handler extraction *)

\* At most this many handler bindings (or script functions) in a file.
MaxHandlerSources == 2

\* /^[\s{(]*/ removed from the front of a body
RECURSIVE DropOpeners(_)
DropOpeners(body) ==
    IF Len(body) > 0 /\ CharAt(body, 1) \in {" ", "{", "("}
    THEN DropOpeners(SubSeq(body, 2, Len(body))) ELSE body

\* The first position from `from` on that holds no word character.
RECURSIVE EndOfWord(_, _)
EndOfWord(text, from) ==
    IF from <= Len(text) /\ IsAlnumOrUnderscore(CharAt(text, from))
    THEN EndOfWord(text, from + 1) ELSE from

\* /^[\s{(]*set[A-Z]\w+\(/.test(body.trim())
isTrivialSetter(body) ==
    LET text == DropOpeners(body)
        end  == EndOfWord(text, 5)
    IN  /\ Len(text) >= 6
        /\ SubSeq(text, 1, 3) = "set"
        /\ IsUpper(CharAt(text, 4))
        /\ end >= 6 /\ end <= Len(text)
        /\ CharAt(text, end) = "("

\* A JSX attribute: its name, the kind of expression it holds and its text,
\* with the tag and the id attribute of the JSX element that carries it.
JsxAttributeOn(parentTag, parentId, name, kind, text) ==
    [ name |-> name, kind |-> kind, text |-> text,
      parentTag |-> parentTag, parentId |-> parentId ]

\* An attribute of a <button> that has no id.
JsxAttribute(name, kind, text) == JsxAttributeOn("button", undefined, name, kind, text)

\* The callback of extractEventHandlers over the attributes in order; `seen`
\* is the set of handler names already pushed.
RECURSIVE JsxHandlers(_, _, _)
JsxHandlers(attributes, seen, handlers) ==
    IF Len(attributes) = 0 THEN handlers
    ELSE LET node == Head(attributes)
             rest == Tail(attributes)
             handlerName == IF node.kind = "identifier" THEN node.text
                            ELSE "inline_" \o node.name \o "_handler"
         IN  IF node.name \notin {"onSubmit", "onClick", "onChange"}
                THEN JsxHandlers(rest, seen, handlers)
             ELSE IF node.kind \notin {"identifier", "arrow"}
                THEN JsxHandlers(rest, seen, handlers)
             ELSE IF node.kind = "arrow" /\ isTrivialSetter(node.text)
                THEN JsxHandlers(rest, seen, handlers)
             ELSE IF handlerName \in seen
                THEN JsxHandlers(rest, seen, handlers)
             ELSE JsxHandlers(rest, seen \cup {handlerName},
                      Append(handlers,
                          EventHandler(handlerName, node.name, node.parentTag, node.parentId,
                                       IF node.kind = "arrow" THEN node.text ELSE undefined,
                                       <<>>)))

extractEventHandlers(attributes) == JsxHandlers(attributes, {}, <<>>)

\* An attribute in HTML source text: name="value".
HtmlAttribute(name, value) == [name |-> name, value |-> value]

\* `on${m[1].charAt(0).toUpperCase()}${m[1].slice(1)}`
InlineEventName(kind) ==
    "on" \o toUpperCase(SubSeq(kind, 1, 1)) \o SubSeq(kind, 2, Len(kind))

\* INLINE_HANDLER_RE = /on(submit|click|change)=['"]([^'"]+)['"]/gi matches
\* the attribute: the flag i lets any casing of the name through, and m[1] is
\* the name as written, less its first two letters.
MatchesInlineHandler(attribute) ==
    /\ toLowerCase(attribute.name) \in {"onsubmit", "onclick", "onchange"}
    /\ Len(attribute.value) > 0

RECURSIVE extractInlineHandlers(_)
extractInlineHandlers(source) ==
    IF Len(source) = 0 THEN <<>>
    ELSE LET attribute == Head(source)
             kind == SubSeq(attribute.name, 3, Len(attribute.name))
         IN  IF MatchesInlineHandler(attribute)
             THEN <<EventHandler("inline_" \o kind \o "_handler", InlineEventName(kind),
                                 undefined, undefined, attribute.value, <<>>)>>
                      \o extractInlineHandlers(Tail(source))
             ELSE extractInlineHandlers(Tail(source))

\* parseVueFile, step 1: every function of <script setup> becomes a handler
\* with event 'unknown'.
VueScriptHandlers(functions) ==
    [ i \in 1..Len(functions) |->
        EventHandler(functions[i], "unknown", undefined, undefined, undefined, <<>>) ]

\* A template binding: @submit on a form or @click on a control.
VueBinding(event, elementTag, handlerName) ==
    [event |-> event, elementTag |-> elementTag, handlerName |-> handlerName]

\* parseVueFile, step 2: a binding re-labels the handler of that name if there
\* is one and adds a handler otherwise.
RECURSIVE VueBoundHandlers(_, _)
VueBoundHandlers(bindings, handlers) ==
    IF Len(bindings) = 0 THEN handlers
    ELSE LET b == Head(bindings)
             IsNamed(h) == h.name = b.handlerName
             existing == FirstIndex(handlers, IsNamed)
         IN  VueBoundHandlers(Tail(bindings),
                 IF existing # 0
                 THEN [handlers EXCEPT ![existing].event = b.event,
                                       ![existing].elementTag = b.elementTag]
                 ELSE Append(handlers,
                          EventHandler(b.handlerName, b.event, b.elementTag, undefined,
                                       undefined, <<>>)))

parseVueFileHandlers(functions, bindings) ==
    VueBoundHandlers(bindings, VueScriptHandlers(functions))

JsxAttributes ==
    { JsxAttribute(name, "identifier", "handleSave") :
        name \in {"onSubmit", "onClick", "onChange", "onBlur"} }
    \cup { JsxAttribute(name, "arrow", text) :
             name \in {"onClick", "onChange", "onMouseEnter"},
             text \in {"setEmail(e.target.value)", "{ save(form) }"} }
    \cup { JsxAttribute("onClick", "call", "makeHandler()"),
           JsxAttribute("className", "string", "btn") }

HtmlAttributes ==
    { HtmlAttribute(name, "save()") :
        name \in {"onsubmit", "onclick", "onClick", "onchange", "ONCLICK", "onblur", "class"} }

VueFunctions == {"save", "formatDate"}

VueBindings ==
    { VueBinding("onSubmit", "form", "save"), VueBinding("onClick", "button", "save"),
      VueBinding("onClick", "button", "remove") }

HandlerSources ==
    { [dialect |-> "react", attributes |-> a, functions |-> <<>>] :
        a \in SeqsUpTo(JsxAttributes, MaxHandlerSources) }
    \cup { [dialect |-> "html", attributes |-> a, functions |-> <<>>] :
             a \in SeqsUpTo(HtmlAttributes, MaxHandlerSources) }
    \cup { [dialect |-> "vue", attributes |-> a, functions |-> f] :
             a \in SeqsUpTo(VueBindings, MaxHandlerSources),
             f \in SeqsUpTo(VueFunctions, MaxHandlerSources) }

HandlersInit ==
    /\ handlersIn \in HandlerSources
    /\ handlersOut = {}

HandlersIdle ==
    /\ handlersIn = [dialect |-> "html", attributes |-> <<>>, functions |-> <<>>]
    /\ handlersOut = {}

HandlersOthers == <<earlierVars, cacheVars, walkVars, groupVars, viteVars, webhookVars, findVars, runtimeVars, pairVars, keysVars, namesVars>>

\* parseReactFile: eventHandlers = extractEventHandlers(fn)
ParseReactHandlers ==
    /\ handlersIn.dialect = "react" /\ handlersOut = {}
    /\ handlersOut' = {extractEventHandlers(handlersIn.attributes)}
    /\ UNCHANGED <<handlersIn, HandlersOthers>>

\* parseHTMLFile: eventHandlers = extractInlineHandlers(source)
ParseHtmlHandlers ==
    /\ handlersIn.dialect = "html" /\ handlersOut = {}
    /\ handlersOut' = {extractInlineHandlers(handlersIn.attributes)}
    /\ UNCHANGED <<handlersIn, HandlersOthers>>

\* parseVueFile: the script pass, then the template pass
ParseVueHandlers ==
    /\ handlersIn.dialect = "vue" /\ handlersOut = {}
    /\ handlersOut' = {parseVueFileHandlers(handlersIn.functions, handlersIn.attributes)}
    /\ UNCHANGED <<handlersIn, HandlersOthers>>

HandlersNext == ParseReactHandlers \/ ParseHtmlHandlers \/ ParseVueHandlers

-----------------------------------------------------------------------------
(* SpecGroup: buildProposals applied to components with forms *)

\* At most this many elements in the component.
MaxGroupElements == 3

InForm(el, formId) == [el EXCEPT !.parentFormId = formId]

LoginForm == UIElement("form", "login", undefined, undefined, undefined, NoAttributes)
SignupForm == UIElement("form", "signup", undefined, undefined, undefined, NoAttributes)
UserInput ==
    InForm(UIElement("input", undefined, "user", "User", "text",
                     FullAttrs("text", undefined, undefined)), "login")
SearchInput ==
    UIElement("input", undefined, "q", "Search", undefined, NoAttributes)
PasswordInput ==
    InForm(UIElement("input", undefined, "pw", "Password", "password",
                     FullAttrs("password", undefined, undefined)), "login")
FileInput ==
    UIElement("input", undefined, "avatar", "Avatar", "file",
              FullAttrs("file", undefined, undefined))
LoginSubmit ==
    InForm(UIElement("button", undefined, undefined, "Log in", "submit",
                     FullAttrs("submit", undefined, undefined)), "login")
SignupSubmit ==
    InForm(UIElement("button", undefined, undefined, "Join", "submit",
                     FullAttrs("submit", undefined, undefined)), "signup")
HelpButton ==
    UIElement("button", "help", undefined, "Help", undefined, NoAttributes)

GroupElementPool ==
    { LoginForm, SignupForm, UserInput, SearchInput, PasswordInput, FileInput,
      LoginSubmit, SignupSubmit, HelpButton }

HelpHandler ==
    EventHandler("showHelp", "onClick", "button", "help", "openPanel()", <<>>)

GroupHandlerLists == { <<>>, <<SubmitHandler>>, <<HelpHandler>> }

\* The element lists a parse can yield: distinct elements, in any order.
GroupElementLists ==
    { l \in SeqsUpTo(GroupElementPool, MaxGroupElements) :
        \A i, j \in 1..Len(l) : i # j => l[i] # l[j] }

GroupInit ==
    /\ groupIn \in { ComponentInfo("AccountPage", elements, handlers) :
                       elements \in GroupElementLists, handlers \in GroupHandlerLists }
    /\ groupOut = {}

GroupIdle ==
    /\ groupIn = ComponentInfo("AccountPage", <<>>, <<>>)
    /\ groupOut = {}

GroupOthers == <<earlierVars, cacheVars, walkVars, handlerVars, viteVars, webhookVars, findVars, runtimeVars, pairVars, keysVars, namesVars>>

\* buildProposals on an analysis holding the component; the candidates of its
\* grouping step are kept beside the proposals.
BuildProposals ==
    /\ groupOut = {}
    /\ groupOut' = { [ candidates |-> groupIntoToolCandidates(groupIn),
                       proposals  |-> buildProposals(Analysis("html", <<groupIn>>)) ] }
    /\ UNCHANGED <<groupIn, GroupOthers>>

GroupNext == BuildProposals

-----------------------------------------------------------------------------
(* vite-plugin/src/index.ts *)

\* The files the include globs match.
ViteFiles == {"src/Settings.tsx", "src/Danger.tsx"}

\* What a source file holds: a component the parser reads, or text on which
\* readFileSync, parseFile or buildProposals throws.
ViteSource(parses, component) == [parses |-> parses, component |-> component]

SettingsPage == ComponentInfo("SettingsPage", <<EmailInput, SaveButton>>, <<SubmitHandler>>)
DangerZone == ComponentInfo("DangerZone", <<DeleteButton>>, <<DeleteHandler>>)
Toolbar == ComponentInfo("Toolbar", <<RefreshButton>>, <<>>)

ViteSourcePool ==
    { ViteSource(TRUE, c) : c \in {SettingsPage, DangerZone, Toolbar, NavBar} }
    \cup { ViteSource(FALSE, ComponentInfo("", <<>>, <<>>)) }

\* The generated module, as far as a tool's presence in it goes: one
\* registration per tool handed to the generator, in order.
generateMCPCodeSync(tools) ==
    [ i \in 1..Len(tools) |-> [name |-> tools[i].name, risk |-> tools[i].risk] ]

IsNotExcluded(p) == p.risk # "excluded"

\* generateForFile: generatedCodes after the call, given the map before it.
generateForFile(codes, file, source) ==
    IF ~source.parses THEN codes
    ELSE LET proposals == buildProposals(Analysis("react", <<source.component>>))
             validProposals == SelectSeq(proposals, IsNotExcluded)
         IN  IF Len(validProposals) = 0
             THEN [codes EXCEPT ![file] = {}]
             ELSE [codes EXCEPT ![file] = {generateMCPCodeSync(validProposals)}]

\* scanAndGenerateAll: the map is cleared, then every file is generated.
RECURSIVE GenerateAll(_, _, _)
GenerateAll(codes, files, sources) ==
    IF files = {} THEN codes
    ELSE LET file == CHOOSE f \in files : TRUE
         IN  GenerateAll(generateForFile(codes, file, sources[file]),
                         files \ {file}, sources)

scanAndGenerateAll(sources) ==
    GenerateAll([f \in ViteFiles |-> {}], ViteFiles, sources)

\* Array.from(generatedCodes.values()).join: the tools of every file's code.
VirtualModule(codes) ==
    UNION { Range(code) : code \in UNION { codes[f] : f \in ViteFiles } }

ViteInit ==
    /\ viteSources \in [ViteFiles -> ViteSourcePool]
    /\ generatedCodes = [f \in ViteFiles |-> {}]
    /\ vitePc = "created"
    /\ viteServed = {}

ViteIdle ==
    /\ viteSources = [f \in ViteFiles |-> ViteSource(FALSE, ComponentInfo("", <<>>, <<>>))]
    /\ generatedCodes = [f \in ViteFiles |-> {}]
    /\ vitePc = "created"
    /\ viteServed = {}

\* buildStart()
ViteBuildStart ==
    /\ vitePc = "created"
    /\ generatedCodes' = scanAndGenerateAll(viteSources)
    /\ vitePc' = "started"
    /\ UNCHANGED <<viteSources, viteServed, ViteOthers>>

\* load(RESOLVED_VIRTUAL_MODULE_ID)
ViteLoad ==
    /\ vitePc = "started"
    /\ viteServed' = {VirtualModule(generatedCodes)}
    /\ UNCHANGED <<viteSources, generatedCodes, vitePc, ViteOthers>>

\* An included file is saved with new content and handleHotUpdate runs for it.
ViteHandleHotUpdate ==
    /\ vitePc = "started"
    /\ \E file \in ViteFiles : \E source \in ViteSourcePool :
          /\ viteSources' = [viteSources EXCEPT ![file] = source]
          /\ generatedCodes' = generateForFile(generatedCodes, file, source)
    /\ UNCHANGED <<vitePc, viteServed, ViteOthers>>

ViteNext == ViteBuildStart \/ ViteLoad \/ ViteHandleHotUpdate

-----------------------------------------------------------------------------
(* The agent webhook and its proposal cache *)

\* At most this many requests are handled, and the clock advances at most
\* this many times.
MaxPosts == 3
MaxTicks == 3

\* The clock advances in steps of two and a half minutes.
TickMs == 150000

\* const TTL_MS = 5 * 60 * 1000
TTL_MS == 300000

StartsWith(s, prefix) ==
    Len(prefix) <= Len(s) /\ SubSeq(s, 1, Len(prefix)) = prefix

IsDigit(c) == \E d \in 1..10 : CharAt(Digits, d) = c

DigitValue(c) == (CHOOSE d \in 1..10 : CharAt(Digits, d) = c) - 1

IsSpace(c) == c \in {" ", "\t", "\n"}

\* String.prototype.trim
RECURSIVE Trim(_)
Trim(s) ==
    IF Len(s) > 0 /\ IsSpace(CharAt(s, 1)) THEN Trim(SubSeq(s, 2, Len(s)))
    ELSE IF Len(s) > 0 /\ IsSpace(CharAt(s, Len(s))) THEN Trim(SubSeq(s, 1, Len(s) - 1))
    ELSE s

\* /^\d[\d,\s]*$/ and the same as a prefix
IsNumberList(s) ==
    /\ Len(s) > 0 /\ IsDigit(CharAt(s, 1))
    /\ \A i \in 2..Len(s) : IsDigit(CharAt(s, i)) \/ CharAt(s, i) = "," \/ IsSpace(CharAt(s, i))

\* /generate\s+(all|\d[\d,\s]*)/i
MatchesGenerate(msg) ==
    LET low == toLowerCase(msg)
    IN  \E i \in 1..(Len(low) - 7) : \E j \in (i + 9)..Len(low) :
            /\ SubSeq(low, i, i + 7) = "generate"
            /\ \A k \in (i + 8)..(j - 1) : IsSpace(CharAt(low, k))
            /\ \/ j + 2 <= Len(low) /\ SubSeq(low, j, j + 2) = "all"
               \/ IsDigit(CharAt(low, j))

\* /instrument|analyze|scan|parse/i
isInstrumentCommand(msg) ==
    \E word \in {"instrument", "analyze", "scan", "parse"} : Includes(toLowerCase(msg), word)

isSelectionResponse(msg) ==
    \/ toLowerCase(Trim(msg)) \in {"all", "yes"}
    \/ IsNumberList(Trim(msg))
    \/ MatchesGenerate(msg)

\* msg.match(/\d+/g).map(Number): the maximal runs of digits, as numbers.
\* `run` is {} outside a run and {n} inside one.
RECURSIVE DigitRuns(_, _, _)
DigitRuns(msg, run, found) ==
    IF Len(msg) = 0 THEN found \o (IF run = {} THEN <<>> ELSE <<CHOOSE n \in run : TRUE>>)
    ELSE LET c == CharAt(msg, 1)
             rest == SubSeq(msg, 2, Len(msg))
         IN  IF IsDigit(c)
             THEN DigitRuns(rest, {10 * (IF run = {} THEN 0 ELSE CHOOSE n \in run : TRUE)
                                   + DigitValue(c)}, found)
             ELSE DigitRuns(rest, {},
                     found \o (IF run = {} THEN <<>> ELSE <<CHOOSE n \in run : TRUE>>))

\* parseSelection: [all |-> TRUE] for 'all', else the numbers within range.
parseSelection(msg, maxIndex) ==
    LET InRange(n) == n >= 1 /\ n <= maxIndex
    IN  IF Includes(toLowerCase(msg), "all") \/ Includes(toLowerCase(msg), "yes")
        THEN [all |-> TRUE, nums |-> <<>>]
        ELSE [all |-> FALSE, nums |-> SelectSeq(DigitRuns(msg, {}, <<>>), InRange)]

\* const selected = selectionResult === 'all' ? ... : ...
SelectedFor(selection, proposals) ==
    LET IsNumbered(p) == p.index \in Range(selection.nums)
    IN  IF selection.all THEN SelectSeq(proposals, IsNotExcluded)
        ELSE SelectSeq(proposals, IsNumbered)

\* extractUserId: the first 16 characters of the token header, else the
\* address, else 'anon'.
extractUserId(req) ==
    IF req.token # undefined
    THEN SubSeq(req.token, 1, IF Len(req.token) < 16 THEN Len(req.token) ELSE 16)
    ELSE IF req.ip # undefined THEN req.ip
    ELSE "anon"

\* A cache entry.  `key` is the Map key; userId and fileHash are the arguments
\* of the cacheProposal call that made it; `component` stands for the cached
\* analysis and proposals.
CachedProposal(userId, fileHash, component, createdAt) ==
    [ key       |-> userId \o ":" \o fileHash,
      userId    |-> userId,
      fileHash  |-> fileHash,
      component |-> component,
      createdAt |-> createdAt ]

IsStale(entry, now) == now - entry.createdAt > TTL_MS

\* cacheProposal: stale entries are dropped, then Map.set (an existing key
\* keeps its place).
cacheProposal(cache, now, userId, fileHash, component) ==
    LET IsFresh(e) == ~IsStale(e, now)
        kept  == SelectSeq(cache, IsFresh)
        entry == CachedProposal(userId, fileHash, component, now)
    IN  IF \E i \in 1..Len(kept) : kept[i].key = entry.key
        THEN [ i \in 1..Len(kept) |-> IF kept[i].key = entry.key THEN entry ELSE kept[i] ]
        ELSE Append(kept, entry)

\* `key.startsWith(userId)`
OwnsKey(key, userId) == StartsWith(key, userId)

\* The loop of getLatestProposal over the entries in order; `latest` is {} or
\* {entry}, `kept` the entries not deleted.
RECURSIVE LatestFrom(_, _, _, _, _)
LatestFrom(entries, now, userId, latest, kept) ==
    IF Len(entries) = 0 THEN [cache |-> kept, latest |-> latest]
    ELSE LET entry == Head(entries)
             rest  == Tail(entries)
         IN  IF ~OwnsKey(entry.key, userId)
                THEN LatestFrom(rest, now, userId, latest, Append(kept, entry))
             ELSE IF IsStale(entry, now)
                THEN LatestFrom(rest, now, userId, latest, kept)
             ELSE IF latest = {} \/ \E l \in latest : entry.createdAt > l.createdAt
                THEN LatestFrom(rest, now, userId, {entry}, Append(kept, entry))
             ELSE LatestFrom(rest, now, userId, latest, Append(kept, entry))

getLatestProposal(cache, now, userId) == LatestFrom(cache, now, userId, {}, <<>>)

\* sha256(sourceCode).slice(0, 12): one hash per source text.
SourceHash(component) == "sha256:" \o component.name

\* A page with a save form and a delete button, and a toolbar.
AccountSettings ==
    ComponentInfo("AccountSettings", <<EmailInput, SaveButton, DeleteButton>>,
                  <<SubmitHandler, DeleteHandler>>)

WebhookSources == {AccountSettings, Toolbar}

WebhookRequests ==
    { [token |-> undefined, ip |-> "10.0.0.1"],
      [token |-> undefined, ip |-> "10.0.0.12"],
      [token |-> "ghu_0123456789abcdefXYZ", ip |-> "10.0.0.1"] }

\* The last user message: its text and the code block it carries, if any.
WebhookMessages ==
    { [text |-> "@webmcp instrument", code |-> {c}] : c \in WebhookSources }
    \cup { [text |-> t, code |-> {}] :
             t \in {"all", "Yes", "2", "1, 2", "generate 2", "help"} }

\* What the handler computes from a message or a source alone, computed once
\* per message and per source.
ProposalsOfSource == [ c \in WebhookSources |-> buildProposals(Analysis("react", <<c>>)) ]

TurnOfMessage ==
    [ msg \in WebhookMessages |->
        IF isInstrumentCommand(msg.text) THEN "instrument"
        ELSE IF isSelectionResponse(msg.text) THEN "selection"
        ELSE "other" ]

SelectionOfMessage ==
    [ msg \in WebhookMessages |->
        [ c \in WebhookSources |-> parseSelection(msg.text, Len(ProposalsOfSource[c])) ] ]

UserIdOfRequest == [ req \in WebhookRequests |-> extractUserId(req) ]

ToolRef(p) == [index |-> p.index, name |-> p.name, risk |-> p.risk]

NoPost ==
    [ kind |-> "none", userId |-> "", text |-> "", at |-> 0, cacheBefore |-> <<>>,
      latest |-> {}, selected |-> <<>> ]

WebhookInit ==
    /\ proposalCache = <<>>
    /\ webhookNow = 0
    /\ webhookPosts = 0
    /\ webhookLast = NoPost

WebhookIdle == WebhookInit

\* Turn 1: the instrument command with source code; the proposals are cached.
PostInstrument ==
    /\ webhookPosts < MaxPosts
    /\ \E req \in WebhookRequests : \E msg \in WebhookMessages :
          /\ TurnOfMessage[msg] = "instrument" /\ msg.code # {}
          /\ \E component \in msg.code :
                LET userId == UserIdOfRequest[req]
                    proposals == ProposalsOfSource[component]
                IN  IF Len(proposals) = 0
                    THEN /\ proposalCache' = proposalCache
                         /\ webhookLast' = [NoPost EXCEPT !.kind = "no elements",
                                                !.userId = userId, !.text = msg.text,
                                                !.at = webhookNow,
                                                !.cacheBefore = proposalCache]
                    ELSE /\ proposalCache' = cacheProposal(proposalCache, webhookNow, userId,
                                                           SourceHash(component), component)
                         /\ webhookLast' = [NoPost EXCEPT !.kind = "proposals",
                                                !.userId = userId, !.text = msg.text,
                                                !.at = webhookNow,
                                                !.cacheBefore = proposalCache]
    /\ webhookPosts' = webhookPosts + 1
    /\ UNCHANGED <<webhookNow, WebhookOthers>>

\* Turn 2: the selection reply; the selected tools are generated.
PostSelection ==
    /\ webhookPosts < MaxPosts
    /\ \E req \in WebhookRequests : \E msg \in WebhookMessages :
          /\ TurnOfMessage[msg] = "selection"
          /\ LET userId == UserIdOfRequest[req]
                 got == getLatestProposal(proposalCache, webhookNow, userId)
                 base == [NoPost EXCEPT !.userId = userId, !.text = msg.text,
                                        !.at = webhookNow, !.cacheBefore = proposalCache,
                                        !.latest = got.latest]
             IN  /\ proposalCache' = got.cache
                 /\ IF got.latest = {}
                    THEN webhookLast' = [base EXCEPT !.kind = "no active proposal"]
                    ELSE \E cached \in got.latest :
                           LET proposals == ProposalsOfSource[cached.component]
                               selected == SelectedFor(SelectionOfMessage[msg][cached.component],
                                                       proposals)
                           IN  IF Len(selected) = 0
                               THEN webhookLast' = [base EXCEPT !.kind = "no valid tools"]
                               ELSE webhookLast' =
                                      [base EXCEPT !.kind = "generated",
                                           !.selected = [i \in 1..Len(selected) |->
                                                            ToolRef(selected[i])]]
    /\ webhookPosts' = webhookPosts + 1
    /\ UNCHANGED <<webhookNow, WebhookOthers>>

\* Any other message: the help text.
PostOther ==
    /\ webhookPosts < MaxPosts
    /\ \E req \in WebhookRequests : \E msg \in WebhookMessages :
          /\ TurnOfMessage[msg] = "other"
          /\ webhookLast' = [NoPost EXCEPT !.kind = "help", !.userId = UserIdOfRequest[req],
                                           !.text = msg.text, !.at = webhookNow,
                                           !.cacheBefore = proposalCache]
    /\ webhookPosts' = webhookPosts + 1
    /\ UNCHANGED <<proposalCache, webhookNow, WebhookOthers>>

\* Time passes.
WebhookTick ==
    /\ webhookNow < MaxTicks * TickMs
    /\ webhookNow' = webhookNow + TickMs
    /\ UNCHANGED <<proposalCache, webhookPosts, webhookLast, WebhookOthers>>

WebhookNext == PostInstrument \/ PostSelection \/ PostOther \/ WebhookTick

-----------------------------------------------------------------------------
(* generator/framework-helpers.ts: the selector array and __mcpFind *)

IsIdentStart(c) == Len(c) = 1 /\ (IsAlnumOrUnderscore(c) \/ c = "-") /\ ~IsDigit(c)

IsIdentChar(c) == Len(c) = 1 /\ (IsAlnumOrUnderscore(c) \/ c = "-")

\* The length of the identifier at the start of s (0: none).
RECURSIVE IdentEnd(_, _)
IdentEnd(s, n) ==
    IF n < Len(s) /\ IsIdentChar(CharAt(s, n + 1)) THEN IdentEnd(s, n + 1) ELSE n

IdentLen(s) == IF Len(s) > 0 /\ IsIdentStart(CharAt(s, 1)) THEN IdentEnd(s, 1) ELSE 0

\* The pseudo-classes a selector may name; any other name after a colon is a
\* syntax error.
PseudoClasses ==
    {"checked", "disabled", "enabled", "focus", "hover", "first-child", "last-child",
     "required", "optional", "invalid", "valid", "root", "empty", "active"}

\* Whether document.querySelector parses the text as a selector: compounds
\* of a type name, #id, .class, [attribute] and :pseudo-class parts, joined
\* by combinators.  `fresh` holds at the start of a compound.
RECURSIVE ParsesAsSelector(_, _)
ParsesAsSelector(s, fresh) ==
    IF Len(s) = 0 THEN ~fresh
    ELSE LET c    == CharAt(s, 1)
             rest == SubSeq(s, 2, Len(s))
             n    == IdentLen(rest)
         IN  IF c \in {" ", ">", "+", "~", ","} THEN ParsesAsSelector(rest, TRUE)
             ELSE IF c = "*" THEN fresh /\ ParsesAsSelector(rest, FALSE)
             ELSE IF IsIdentStart(c)
                THEN fresh /\ ParsesAsSelector(SubSeq(s, IdentLen(s) + 1, Len(s)), FALSE)
             ELSE IF c \in {"#", "."}
                THEN n > 0 /\ ParsesAsSelector(SubSeq(rest, n + 1, Len(rest)), FALSE)
             ELSE IF c = ":"
                THEN /\ n > 0
                     /\ toLowerCase(SubSeq(rest, 1, n)) \in PseudoClasses
                     /\ ParsesAsSelector(SubSeq(rest, n + 1, Len(rest)), FALSE)
             ELSE IF c = "["
                THEN /\ n > 0
                     /\ \E k \in 1..Len(rest) :
                           /\ CharAt(rest, k) = "]"
                           /\ \A j \in 1..(k - 1) : CharAt(rest, j) # "]"
                           /\ ParsesAsSelector(SubSeq(rest, k + 1, Len(rest)), FALSE)
             ELSE FALSE

IsValidSelector(sel) == ParsesAsSelector(Trim(sel), TRUE)

\* buildSelectorArray: the strings of the array literal the handler embeds.
buildSelectorArray(el) ==
    LET fallbacks ==
               (IF Truthy(el.id) THEN <<"#" \o el.id>> ELSE <<>>)
            \o (IF Truthy(el.attributes["data-testid"])
                THEN <<"[data-testid=\"" \o el.attributes["data-testid"] \o "\"]">> ELSE <<>>)
            \o (IF Truthy(el.name) THEN <<"[name=\"" \o el.name \o "\"]">> ELSE <<>>)
            \o (IF Truthy(el.ariaLabel)
                THEN <<"[aria-label=\"" \o el.ariaLabel \o "\"]">> ELSE <<>>)
            \o (IF Truthy(el.inputType)
                THEN <<"input[type=\"" \o el.inputType \o "\"]">> ELSE <<>>)
    IN  IF \E list \in el.selectorFallback : Len(list) > 0
        THEN LET list == CHOOSE l \in el.selectorFallback : TRUE
             IN  [i \in 1..Len(list) |-> list[i].value]
        ELSE IF Len(fallbacks) = 0
        THEN <<"/* TODO: add id to " \o el.tag \o " */">>
        ELSE fallbacks

\* document.querySelector(sel): a SyntaxError for text that is no selector,
\* else the element or null.
querySelector(sel, resolving) ==
    IF ~IsValidSelector(sel) THEN "SyntaxError"
    ELSE IF sel \in resolving THEN "element"
    ELSE "null"

FindOutcome(kind, index) == [kind |-> kind, index |-> index]

\* __mcpFind: the loop from position i on.
RECURSIVE McpFindFrom(_, _, _)
McpFindFrom(selectors, i, resolving) ==
    IF i > Len(selectors) THEN FindOutcome("not found", 0)
    ELSE LET found == querySelector(selectors[i], resolving)
         IN  IF found = "SyntaxError" THEN FindOutcome("SyntaxError", i)
             ELSE IF found = "element" THEN FindOutcome("element", i)
             ELSE McpFindFrom(selectors, i + 1, resolving)

FindProbes == {ProbedEmail, ProbedDelete, ProbedRefresh, ProbedAnonymous}

\* Elements as the matcher leaves them (a synthesized list), and elements no
\* probe has touched.
FindElements ==
    { [EmailInput EXCEPT !.selectorFallback = {synthesizeStrategies(p, m)}] :
        p \in FindProbes, m \in {40, 100} }
    \cup { [el EXCEPT !.selectorFallback = {fallbackToASTStrategies(el)}] :
             el \in {EmailInput, DeleteButton} }
    \cup {EmailInput, DeleteButton, LinkButton}

SelectorsOf == [ el \in FindElements |-> buildSelectorArray(el) ]

FindInit ==
    /\ findEl \in FindElements
    /\ findResolving \in SUBSET { sel \in Range(SelectorsOf[findEl]) : IsValidSelector(sel) }
    /\ findResult = {}

FindIdle ==
    /\ findEl = LinkButton
    /\ findResolving = {}
    /\ findResult = {}

\* The generated handler calls __mcpFind on the embedded array.
McpFind ==
    /\ findResult = {}
    /\ findResult' = {McpFindFrom(SelectorsOf[findEl], 1, findResolving)}
    /\ UNCHANGED <<findEl, findResolving, FindOthers>>

FindNext == McpFind

-----------------------------------------------------------------------------
(* The browser runtime: registerTool and invokeTool *)

RuntimeNames == {"greet", "fail", "nope"}

\* What a handler does when it is called: it returns or resolves a result,
\* throws before returning a promise, returns a promise that rejects (with an
\* Error or with a bare string), or returns a promise that never settles.
HandlerBehaviour(kind, message) == [kind |-> kind, message |-> message]

RuntimeHandlers ==
    { HandlerBehaviour("resolves", "Hello, Alice!"),
      HandlerBehaviour("throws", "boom"),
      HandlerBehaviour("rejects", "boom"),
      HandlerBehaviour("rejects string", "oops"),
      HandlerBehaviour("hangs", "") }

NotAFunction == HandlerBehaviour("not a function", "")

\* The promise invokeTool returns.
Pending == [state |-> "pending", success |-> FALSE, message |-> ""]
Resolved(success, message) == [state |-> "resolved", success |-> success, message |-> message]
Rejected(message) == [state |-> "rejected", success |-> FALSE, message |-> message]

\* A mutation of AfterHandler: there is no catch around the handler call.
AfterHandlerUncaught(handler) ==
    IF handler.kind = "resolves" THEN Resolved(TRUE, handler.message)
    ELSE IF handler.kind \in {"throws", "rejects", "rejects string"}
    THEN Rejected(handler.message)
    ELSE Pending

\* try { return await tool.handler(params) } catch (err) { return {success:
\* false, message: err instanceof Error ? err.message : String(err)} }
AfterHandler(handler) ==
    IF handler.kind = "resolves" THEN Resolved(TRUE, handler.message)
    ELSE IF handler.kind \in {"throws", "rejects", "rejects string"}
    THEN Resolved(FALSE, handler.message)
    ELSE Pending

NoCall == [pc |-> "idle", name |-> "", found |-> {}, promise |-> Pending]

RuntimeInit ==
    /\ runtimeTools = [n \in RuntimeNames |-> {}]
    /\ runtimeCall = NoCall

RuntimeIdle == RuntimeInit

\* registerTool(tool): throws on an empty name or a handler that is no
\* function; otherwise sets (or overwrites) the entry.
RegisterTool ==
    \E name \in RuntimeNames \cup {""} : \E handler \in RuntimeHandlers \cup {NotAFunction} :
        /\ IF name = "" \/ handler = NotAFunction
           THEN runtimeTools' = runtimeTools
           ELSE runtimeTools' = [runtimeTools EXCEPT ![name] = {handler}]
        /\ UNCHANGED <<runtimeCall, RuntimeOthers>>

\* invokeTool(name, params) up to its await: the lookup, and the call of the
\* handler.  A missing tool, and a handler that throws at once, settle the
\* promise here.
InvokeTool ==
    /\ runtimeCall.pc # "awaiting"
    /\ \E name \in RuntimeNames :
          LET tool == runtimeTools[name]
          IN  IF tool = {}
              THEN runtimeCall' = [ pc |-> "settled", name |-> name, found |-> {},
                                    promise |-> Rejected("[WebMCP] Tool \"" \o name
                                                         \o "\" not found") ]
              ELSE \E handler \in tool :
                     IF handler.kind = "throws"
                     THEN runtimeCall' = [ pc |-> "settled", name |-> name,
                                           found |-> tool, promise |-> AfterHandler(handler) ]
                     ELSE runtimeCall' = [ pc |-> "awaiting", name |-> name,
                                           found |-> tool, promise |-> Pending ]
    /\ UNCHANGED <<runtimeTools, RuntimeOthers>>

\* The promise the handler returned settles.
InvokeToolResumes ==
    /\ runtimeCall.pc = "awaiting"
    /\ \E handler \in runtimeCall.found :
          /\ handler.kind # "hangs"
          /\ runtimeCall' = [runtimeCall EXCEPT !.pc = "settled",
                                                !.promise = AfterHandler(handler)]
    /\ UNCHANGED <<runtimeTools, RuntimeOthers>>

RuntimeNext == RegisterTool \/ InvokeTool \/ InvokeToolResumes

-----------------------------------------------------------------------------
(* SpecPair: a React component of buttons, parsed and grouped *)

\* At most this many buttons in the component.
MaxButtons == 3

\* <button id={id} onClick={onClick}>{label}</button>; onClick is undefined
\* when the button has no click handler.
JsxButton(id, label, onClick) == [id |-> id, label |-> label, onClick |-> onClick]

JsxButtonPool ==
    { JsxButton("saveBtn", "Save", "handleSave"),
      JsxButton(undefined, "Delete account", "handleDelete"),
      JsxButton(undefined, "Cancel", "handleCancel"),
      JsxButton("resetBtn", "Reset", "handleSave"),
      JsxButton("info", "Info", undefined) }

\* The sources: distinct buttons in any order.
JsxButtonLists ==
    { l \in SeqsUpTo(JsxButtonPool, MaxButtons) :
        \A i, j \in 1..Len(l) : i # j => l[i] # l[j] }

\* The onClick attributes of the source, in source order.
RECURSIVE ClickAttributes(_)
ClickAttributes(buttons) ==
    IF Len(buttons) = 0 THEN <<>>
    ELSE LET b == Head(buttons)
         IN  (IF b.onClick = undefined THEN <<>>
              ELSE <<JsxAttributeOn("button", b.id, "onClick", "identifier", b.onClick)>>)
             \o ClickAttributes(Tail(buttons))

\* parseReactFile on the component: one element per button, and the handlers
\* of extractEventHandlers.
ParsedButtons(buttons) ==
    ComponentInfo("SettingsPanel",
        [ i \in 1..Len(buttons) |->
            UIElement("button", buttons[i].id, undefined, buttons[i].label,
                      undefined, NoAttributes) ],
        extractEventHandlers(ClickAttributes(buttons)))

PairInit ==
    /\ pairIn \in JsxButtonLists
    /\ pairOut = {}

PairIdle ==
    /\ pairIn = <<>>
    /\ pairOut = {}

\* parseReactFile, then the grouping step of buildProposals.
GroupParsedButtons ==
    /\ pairOut = {}
    /\ pairOut' = {groupIntoToolCandidates(ParsedButtons(pairIn))}
    /\ UNCHANGED <<pairIn, PairOthers>>

PairNext == GroupParsedButtons

-----------------------------------------------------------------------------
(* generator/handler-generator.ts: the template handler's parameter names *)

\* At most this many input elements in the form.
MaxKeyInputs == 1

\* .replace(/[^a-zA-Z0-9_]/g, '_')
RECURSIVE NonWordToUnderscore(_)
NonWordToUnderscore(s) ==
    IF s = "" THEN ""
    ELSE LET c == CharAt(s, 1)
         IN  (IF IsAlnumOrUnderscore(c) THEN c ELSE "_")
                 \o NonWordToUnderscore(SubSeq(s, 2, Len(s)))

toSafeKey(name) ==
    TrimUnderscores(CollapseUnderscores(NonWordToUnderscore(name), FALSE))

\* The fill lines of buildTemplateHandler: for each input element that has a
\* parameter name, the element and the expression `params.${safeParam}` given
\* to buildSetCall.
RECURSIVE TemplateFills(_)
TemplateFills(inputElements) ==
    IF Len(inputElements) = 0 THEN <<>>
    ELSE LET el        == Head(inputElements)
             paramName == Coalesce(el.name, Coalesce(el.id, Coalesce(el.stateBinding, el.label)))
         IN  IF ~Truthy(paramName) THEN TemplateFills(Tail(inputElements))
             ELSE <<[element |-> el, value |-> "params." \o toSafeKey(paramName)]>>
                      \o TemplateFills(Tail(inputElements))

buildTemplateHandler(tool) == TemplateFills(tool.sourceMapping.inputElements)

FieldIdentifiers ==
    { "email", "firstName", "Email", "first-name", "user name", "zip_code",
      "first.name", "URL", "q2" }

\* An <input> whose only identifier is the given one, held as its name, its
\* id, its state binding or its label.
KeyInputPool ==
    { UIElement("input", undefined, f, undefined, "text", NoAttributes) :
        f \in FieldIdentifiers }
    \cup { UIElement("input", f, undefined, undefined, "text", NoAttributes) :
             f \in FieldIdentifiers }
    \cup { [UIElement("input", undefined, undefined, undefined, "text", NoAttributes)
              EXCEPT !.stateBinding = f] : f \in FieldIdentifiers }
    \cup { UIElement("input", undefined, undefined, f, "text", NoAttributes) :
             f \in FieldIdentifiers }
    \cup { UIElement("input", undefined, undefined, undefined, "text", NoAttributes) }

KeyCandidate(inputElements) ==
    ToolCandidate("form", "SignupForm",
        UIElement("button", undefined, undefined, "Join", "submit", NoAttributes),
        inputElements, NoHandler)

KeysInit ==
    /\ keyIn \in SeqsUpTo(KeyInputPool, MaxKeyInputs)
    /\ keyTool = {}
    /\ keyHandler = {}

KeysIdle ==
    /\ keyIn = <<>>
    /\ keyTool = {}
    /\ keyHandler = {}

\* buildProposals: the proposal of the form candidate, with its inputSchema.
ProposeKeyTool ==
    /\ keyTool = {}
    /\ LET candidate == KeyCandidate(keyIn)
       IN  keyTool' = { ToolProposal(candidate,
                            classifyRisk(candidate.triggerElement, candidate.handler), 0) }
    /\ UNCHANGED <<keyIn, keyHandler, KeysOthers>>

\* generateHandlerWithLLM with the template-only adapter.
GenerateTemplateHandler ==
    /\ keyHandler = {}
    /\ \E tool \in keyTool : keyHandler' = {buildTemplateHandler(tool)}
    /\ UNCHANGED <<keyIn, keyTool, KeysOthers>>

KeysNext == ProposeKeyTool \/ GenerateTemplateHandler

-----------------------------------------------------------------------------
(* SpecNames: the names buildProposals gives to a button's tool *)

TriggerLabels == {undefined, "Save", "Sign Up!", "...", "+", "?"}
TriggerIds == {undefined, "btn-1", "#"}
ClickHandlerNames == {undefined, "handleSave"}
ComponentNames == {"AccountPage", "$"}

\* A component of one button, which may have a label, an id and a click
\* handler, alone (an action) or after a text input (a form).
NamedComponent(componentName, label, id, handlerName, withInput) ==
    ComponentInfo(componentName,
        (IF withInput
         THEN <<UIElement("input", undefined, "q", "Query", "text", NoAttributes)>>
         ELSE <<>>)
        \o <<UIElement("button", id, undefined, label, undefined, NoAttributes)>>,
        IF handlerName = undefined THEN <<>>
        ELSE <<EventHandler(handlerName, "onClick", "button", id, undefined, <<>>)>>)

NamesInit ==
    /\ nameIn \in { NamedComponent(c, label, id, h, withInput) :
                      c \in ComponentNames, label \in TriggerLabels, id \in TriggerIds,
                      h \in ClickHandlerNames, withInput \in BOOLEAN }
    /\ nameOut = {}

NamesIdle ==
    /\ nameIn = ComponentInfo("AccountPage", <<>>, <<>>)
    /\ nameOut = {}

\* buildProposals on an analysis holding the component.
BuildNamedProposals ==
    /\ nameOut = {}
    /\ nameOut' = {buildProposals(Analysis("react", <<nameIn>>))}
    /\ UNCHANGED <<nameIn, NamesOthers>>

NamesNext == BuildNamedProposals

-----------------------------------------------------------------------------
(* The parsers' form tracking: extractJSXElements, walkHTML, parseVueFile *)

\* At most this many tags in the markup.
MaxTags == 5

\* A tag of the markup: <form id=...>, </form>, or an <input name=...>.
FormOpenTag(id) == [kind |-> "form open", id |-> id]
FormCloseTag == [kind |-> "form close", id |-> undefined]
ElementTag == [kind |-> "element", id |-> undefined]

WalkTags == {FormOpenTag("login"), FormOpenTag("signup"), FormCloseTag, ElementTag}

\* The forms open after the first n tags, innermost last.
RECURSIVE OpenForms(_, _)
OpenForms(tags, n) ==
    IF n = 0 THEN <<>>
    ELSE LET before == OpenForms(tags, n - 1)
         IN  IF tags[n].kind = "form open" THEN Append(before, tags[n].id)
             ELSE IF tags[n].kind = "form close"
                  THEN SubSeq(before, 1, Len(before) - 1)
             ELSE before

\* Markup in which every </form> closes an open form and no form is left open.
WellNested(tags) ==
    /\ \A n \in 1..Len(tags) :
          tags[n].kind = "form close" => Len(OpenForms(tags, n - 1)) > 0
    /\ Len(OpenForms(tags, Len(tags))) = 0

WalkMarkups == { tags \in SeqsUpTo(WalkTags, MaxTags) : WellNested(tags) }

WalkDialects == {"react", "html", "vue"}

WalkInit ==
    /\ walkIn \in [dialect : WalkDialects, tags : WalkMarkups]
    /\ walkPos = 0
    /\ formDepth = 0
    /\ currentFormId = undefined
    /\ walkElements = <<>>
    /\ walkEmittedAt = <<>>

WalkIdle ==
    /\ walkIn = [dialect |-> "html", tags |-> <<>>]
    /\ walkPos = 0
    /\ formDepth = 0
    /\ currentFormId = undefined
    /\ walkElements = <<>>
    /\ walkEmittedAt = <<>>

WalkOthers == <<earlierVars, cacheVars, handlerVars, groupVars, viteVars, webhookVars, findVars, runtimeVars, pairVars, keysVars, namesVars>>

\* parentFormId: formDepth > 0 ? currentFormId : undefined
ParentFormId(depth, formId) == IF depth > 0 THEN formId ELSE undefined

WalkedInput(depth, formId) ==
    [UIElement("input", undefined, "field", undefined, "text", NoAttributes)
        EXCEPT !.parentFormId = ParentFormId(depth, formId)]

WalkedForm(id, parentFormId) ==
    [UIElement("form", id, undefined, undefined, undefined, NoAttributes)
        EXCEPT !.parentFormId = parentFormId]

WalkEmit(el) ==
    /\ walkElements' = Append(walkElements, el)
    /\ walkEmittedAt' = Append(walkEmittedAt, walkPos + 1)

\* extractJSXElements: the callback of forEachDescendant.  Only opening and
\* self-closing elements pass the first test, so a closing tag changes nothing.
WalkJsxNode ==
    /\ walkIn.dialect = "react"
    /\ walkPos < Len(walkIn.tags)
    /\ walkPos' = walkPos + 1
    /\ LET tag == walkIn.tags[walkPos + 1]
       IN  IF tag.kind = "form open"
           THEN /\ formDepth' = formDepth + 1
                /\ currentFormId' = tag.id
                /\ WalkEmit(WalkedForm(tag.id, ParentFormId(formDepth', currentFormId')))
           ELSE IF tag.kind = "element"
           THEN /\ WalkEmit(WalkedInput(formDepth, currentFormId))
                /\ UNCHANGED <<formDepth, currentFormId>>
           ELSE UNCHANGED <<formDepth, currentFormId, walkElements, walkEmittedAt>>
    /\ UNCHANGED <<walkIn, WalkOthers>>

\* walkHTML: onopentag
WalkHtmlOpenTag ==
    /\ walkIn.dialect = "html"
    /\ walkPos < Len(walkIn.tags)
    /\ walkIn.tags[walkPos + 1].kind # "form close"
    /\ walkPos' = walkPos + 1
    /\ LET tag == walkIn.tags[walkPos + 1]
       IN  IF tag.kind = "form open"
           THEN /\ formDepth' = formDepth + 1
                /\ currentFormId' = tag.id
                /\ WalkEmit(WalkedForm(tag.id, undefined))
           ELSE /\ WalkEmit(WalkedInput(formDepth, currentFormId))
                /\ UNCHANGED <<formDepth, currentFormId>>
    /\ UNCHANGED <<walkIn, WalkOthers>>

\* walkHTML: onclosetag of a form
WalkHtmlCloseTag ==
    /\ walkIn.dialect = "html"
    /\ walkPos < Len(walkIn.tags)
    /\ walkIn.tags[walkPos + 1].kind = "form close"
    /\ walkPos' = walkPos + 1
    /\ formDepth' = formDepth - 1
    /\ currentFormId' = IF formDepth' = 0 THEN undefined ELSE currentFormId
    /\ UNCHANGED <<walkIn, walkElements, walkEmittedAt, WalkOthers>>

\* parseVueFile: one turn of the tagRegex loop.  The expression matches
\* opening tags only, so a closing tag is passed over.
WalkVueTag ==
    /\ walkIn.dialect = "vue"
    /\ walkPos < Len(walkIn.tags)
    /\ walkPos' = walkPos + 1
    /\ LET tag == walkIn.tags[walkPos + 1]
       IN  IF tag.kind = "form open"
           THEN /\ formDepth' = formDepth + 1
                /\ currentFormId' = tag.id
                /\ WalkEmit(WalkedForm(tag.id, undefined))
           ELSE IF tag.kind = "element"
           THEN /\ WalkEmit(WalkedInput(formDepth, currentFormId))
                /\ UNCHANGED <<formDepth, currentFormId>>
           ELSE UNCHANGED <<formDepth, currentFormId, walkElements, walkEmittedAt>>
    /\ UNCHANGED <<walkIn, WalkOthers>>

WalkNext == WalkJsxNode \/ WalkHtmlOpenTag \/ WalkHtmlCloseTag \/ WalkVueTag

EarlierIdle ==
    RiskIdle /\ StabilityIdle /\ MatchIdle /\ IdIdle /\ ProbeIdle /\ CliIdle

LaterIdle == CacheIdle /\ WalkIdle /\ HandlersIdle /\ GroupIdle /\ ViteIdle /\ WebhookIdle /\ FindIdle /\ RuntimeIdle /\ PairIdle /\ KeysIdle /\ NamesIdle

-----------------------------------------------------------------------------
(* Specifications *)

\* Each specification starts one part of the program and leaves the others at
\* rest.
InitRisk == RiskInit /\ StabilityIdle /\ MatchIdle /\ IdIdle /\ ProbeIdle /\ CliIdle /\ LaterIdle

SpecRisk == InitRisk /\ [][ClassifyRisk]_vars

InitStability == StabilityInit /\ RiskIdle /\ MatchIdle /\ IdIdle /\ ProbeIdle /\ CliIdle /\ LaterIdle

SpecStability == InitStability /\ [][AssessStability]_vars

InitMatch == MatchInit /\ RiskIdle /\ StabilityIdle /\ IdIdle /\ ProbeIdle /\ CliIdle /\ LaterIdle

SpecMatch == InitMatch /\ [][MatchElementsToProbe]_vars

InitId == IdInit /\ RiskIdle /\ StabilityIdle /\ MatchIdle /\ ProbeIdle /\ CliIdle /\ LaterIdle

SpecId == InitId /\ [][GenerateToolIds]_vars

InitProbe == ProbeInit /\ RiskIdle /\ StabilityIdle /\ MatchIdle /\ IdIdle /\ CliIdle /\ LaterIdle

SpecProbe == InitProbe /\ [][ProbeNext]_vars

\* runProbe with the progress its awaits guarantee.  chromium.launch, goto and
\* waitForTimeout carry a timeout, and newContext, newPage and close answer
\* from the browser process; the two page.evaluate calls (lines 29 and 34) take
\* no timeout and wait for the page for as long as it takes, so nothing makes
\* ProbeSetup or ProbeExtract happen.
ProbeFairness ==
    /\ WF_vars(ProbeLaunch) /\ WF_vars(ProbeNewContext) /\ WF_vars(ProbeNewPage)
    /\ WF_vars(ProbeGoto) /\ WF_vars(ProbeSettle) /\ WF_vars(ProbeSettleAfterSetup)
    /\ WF_vars(ProbeFinally)

SpecProbeLive == InitProbe /\ [][ProbeNext]_vars /\ ProbeFairness

InitCache == CacheInit /\ EarlierIdle /\ WalkIdle /\ HandlersIdle /\ GroupIdle /\ ViteIdle /\ WebhookIdle /\ FindIdle /\ RuntimeIdle /\ PairIdle /\ KeysIdle /\ NamesIdle

InitWalk == WalkInit /\ EarlierIdle /\ CacheIdle /\ HandlersIdle /\ GroupIdle /\ ViteIdle /\ WebhookIdle /\ FindIdle /\ RuntimeIdle /\ PairIdle /\ KeysIdle /\ NamesIdle

InitHandlers == HandlersInit /\ EarlierIdle /\ CacheIdle /\ WalkIdle /\ GroupIdle /\ ViteIdle /\ WebhookIdle /\ FindIdle /\ RuntimeIdle /\ PairIdle /\ KeysIdle /\ NamesIdle

InitGroup == GroupInit /\ EarlierIdle /\ CacheIdle /\ WalkIdle /\ HandlersIdle /\ ViteIdle /\ WebhookIdle /\ FindIdle /\ RuntimeIdle /\ PairIdle /\ KeysIdle /\ NamesIdle

SpecGroup == InitGroup /\ [][GroupNext]_vars

SpecHandlers == InitHandlers /\ [][HandlersNext]_vars

SpecWalk == InitWalk /\ [][WalkNext]_vars

SpecCache == InitCache /\ [][CacheNext]_vars

InitVite == ViteInit /\ EarlierIdle /\ CacheIdle /\ WalkIdle /\ HandlersIdle /\ GroupIdle /\ WebhookIdle /\ FindIdle /\ RuntimeIdle /\ PairIdle /\ KeysIdle /\ NamesIdle

SpecVite == InitVite /\ [][ViteNext]_vars

InitWebhook == WebhookInit /\ EarlierIdle /\ CacheIdle /\ WalkIdle /\ HandlersIdle /\ GroupIdle /\ ViteIdle /\ FindIdle /\ RuntimeIdle /\ PairIdle /\ KeysIdle /\ NamesIdle

SpecWebhook == InitWebhook /\ [][WebhookNext]_vars

InitFind == FindInit /\ EarlierIdle /\ CacheIdle /\ WalkIdle /\ HandlersIdle /\ GroupIdle /\ ViteIdle /\ WebhookIdle /\ RuntimeIdle /\ PairIdle /\ KeysIdle /\ NamesIdle

SpecFind == InitFind /\ [][FindNext]_vars

InitRuntime == RuntimeInit /\ EarlierIdle /\ CacheIdle /\ WalkIdle /\ HandlersIdle /\ GroupIdle /\ ViteIdle /\ WebhookIdle /\ FindIdle /\ PairIdle /\ KeysIdle /\ NamesIdle

SpecRuntime == InitRuntime /\ [][RuntimeNext]_vars

InitPair == PairInit /\ EarlierIdle /\ CacheIdle /\ WalkIdle /\ HandlersIdle /\ GroupIdle /\ ViteIdle /\ WebhookIdle /\ FindIdle /\ RuntimeIdle /\ KeysIdle /\ NamesIdle

SpecPair == InitPair /\ [][PairNext]_vars

InitKeys == KeysInit /\ EarlierIdle /\ CacheIdle /\ WalkIdle /\ HandlersIdle /\ GroupIdle /\ ViteIdle /\ WebhookIdle /\ FindIdle /\ RuntimeIdle /\ PairIdle /\ NamesIdle

SpecKeys == InitKeys /\ [][KeysNext]_vars

InitNames == NamesInit /\ EarlierIdle /\ CacheIdle /\ WalkIdle /\ HandlersIdle /\ GroupIdle /\ ViteIdle /\ WebhookIdle /\ FindIdle /\ RuntimeIdle /\ PairIdle /\ KeysIdle

SpecNames == InitNames /\ [][NamesNext]_vars

Init == CliInit /\ RiskIdle /\ StabilityIdle /\ MatchIdle /\ IdIdle /\ ProbeIdle /\ LaterIdle

Spec == Init /\ [][CliNext]_vars

-----------------------------------------------------------------------------
(* Claims about classifyRisk *)

\* The lowercased text signals that are present, each on its own.
RiskTexts ==
    { toLowerCase(t) :
        t \in { x \in { riskIn.triggerElement.label, riskIn.triggerElement.name,
                        riskIn.triggerElement.id, riskIn.handler.name,
                        riskIn.handler.body } : Truthy(x) } }

RiskMentions(keywords) ==
    \E t \in RiskTexts : \E i \in 1..Len(keywords) : Includes(t, keywords[i])

RiskCalls(methods) ==
    \E i \in 1..Len(riskIn.handler.apiCalls) :
        toUpperCase(riskIn.handler.apiCalls[i].method) \in methods

\* C1: classifyRisk returns the first tier that matches, in the priority
\* excluded, destructive, caution, safe: excluded when an exclusion pattern
\* occurs in a text signal, whatever else is present; otherwise destructive when
\* a destructive keyword occurs or a recorded call uses DELETE; otherwise
\* caution when a mutation keyword occurs or a recorded call uses POST, PUT or
\* PATCH; otherwise safe.  "Delete and Save" alone is destructive, and a label
\* with both "delete" and "navigate" is excluded.
RiskCascadeOrder ==
    riskOut # NoClassification =>
        /\ riskOut.risk =
              IF RiskMentions(EXCLUDED_PATTERNS) THEN "excluded"
              ELSE IF RiskMentions(DESTRUCTIVE_KEYWORDS) \/ RiskCalls({"DELETE"})
                   THEN "destructive"
              ELSE IF RiskMentions(CAUTION_KEYWORDS) \/ RiskCalls({"POST", "PUT", "PATCH"})
                   THEN "caution"
              ELSE "safe"
        /\ riskIn.triggerElement.label = "Delete or navigate" => riskOut.risk = "excluded"
        /\ ( /\ riskIn.triggerElement.label = "Delete and Save"
             /\ ~RiskMentions(EXCLUDED_PATTERNS) ) => riskOut.risk = "destructive"

\* A label with both a destructive keyword and an exclusion pattern, a handler
\* with a mutation keyword and a DELETE call: classified, and excluded.
RiskCascadeOrderWitness ==
    /\ riskIn.triggerElement.label = "Delete or navigate"
    /\ riskIn.handler.name = "onUpdate"
    /\ RiskCalls({"DELETE"})
    /\ riskOut.risk = "excluded"

-----------------------------------------------------------------------------
(* Claims about assessStability *)

\* An element with no fallback list, an empty one, or every score under 0.6.
WeaklyLocated(el) ==
    \/ el.selectorFallback = {}
    \/ \A list \in el.selectorFallback :
           \A i \in 1..Len(list) : list[i].score < 60

StabilityChecked ==
    Range(stabIn.inputElements)
        \cup (IF stabIn.triggerElement = NoElement THEN {} ELSE {stabIn.triggerElement})

TopScoreOfOnlyInput ==
    IF /\ Len(stabIn.inputElements) = 1
       /\ stabIn.triggerElement = NoElement
       /\ ~LacksSelector(stabIn.inputElements[1])
    THEN SelectorList(stabIn.inputElements[1])[1].score
    ELSE -1

\* C4: a candidate is marked unstable exactly when some input element or its
\* trigger element has no fallback-selector list (absent or empty) or a highest
\* score strictly below 0.6; an only input with top score 0.6 is stable, with
\* top score 0.59 unstable.
StabilityGate ==
    \A verdict \in stabOut :
        /\ verdict.isStable = ~(\E el \in StabilityChecked : WeaklyLocated(el))
        /\ TopScoreOfOnlyInput = 60 => verdict.isStable
        /\ TopScoreOfOnlyInput = 59 => ~verdict.isStable

\* The boundary case has been assessed: one input, top score exactly 0.6, stable.
StabilityGateWitness ==
    /\ TopScoreOfOnlyInput = 60
    /\ \E verdict \in stabOut : verdict.isStable

-----------------------------------------------------------------------------
(* Claims about matchElementsToProbe *)

NonIncreasing(list) == \A i \in 1..(Len(list) - 1) : list[i].score >= list[i + 1].score

\* C6: after matchElementsToProbe returns, for any probe list including the
\* empty one, every static element carries a non-empty fallback-selector list
\* whose scores are in non-increasing order.
MatchLeavesSortedFallback ==
    matchDone =>
        \A i \in 1..Len(matchElements) :
            /\ matchElements[i].selectorFallback # {}
            /\ \A list \in matchElements[i].selectorFallback :
                   Len(list) > 0 /\ NonIncreasing(list)

\* Zero probe elements, and a static element with an id and a test hook (pushed
\* out of score order) has received its AST-only list.
MatchLeavesSortedFallbackWitness ==
    /\ matchDone
    /\ matchProbe = <<>>
    /\ \E i \in 1..Len(matchElements) :
          /\ matchElements[i].id = "email"
          /\ \E list \in matchElements[i].selectorFallback :
                 Len(list) = 4 /\ list[1].strategy = "testid"

-----------------------------------------------------------------------------
(* Claims about generateToolId *)

\* The field identifier as generateToolId reads it ("Field identifier").
IdFieldIdentifier(el) == Coalesce(el.name, Coalesce(el.id, Coalesce(el.stateBinding, "")))

\* What the claim lets an input contribute: identifier, label, subtype-or-tag.
IdInputSemantics(el) ==
    << IdFieldIdentifier(el), Coalesce(el.label, Coalesce(el.ariaLabel, "")),
       Coalesce(el.inputType, el.tag) >>

\* What the claim lets a candidate contribute.
IdSemantics(c) ==
    << c.componentName, c.type,
       c.triggerElement.tag, c.triggerElement.label, c.triggerElement.attributes["name"],
       [i \in 1..Len(c.inputElements) |-> IdInputSemantics(c.inputElements[i])] >>

\* C8: two candidates that agree on component name, type, trigger
\* tag/label/name attribute and, input by input, on field identifier, label and
\* subtype-or-tag get the same id, whatever their class attributes, enclosing
\* form, other attributes or selector lists are.
IdIgnoresCosmetics ==
    \A ids \in idOut :
        IdSemantics(idIn.a) = IdSemantics(idIn.b) => ids.a = ids.b

\* Two candidates that differ in the trigger's class, enclosing form and
\* selector list and in an input's class have been given the same id.
IdIgnoresCosmeticsWitness ==
    /\ idIn.a.triggerElement.attributes["class"] = "btn"
    /\ idIn.b.triggerElement.attributes["class"] = "btn-primary"
    /\ Len(idIn.a.inputElements) = 1 /\ Len(idIn.b.inputElements) = 1
    /\ idIn.a.inputElements[1].attributes["class"] = undefined
    /\ idIn.b.inputElements[1].attributes["class"] = "form-control"
    /\ idIn.a.inputElements[1].name = "userName"
    /\ \E ids \in idOut : ids.a = ids.b

\* The key under which buildSchema files the element.
SchemaKey(el) == toSnakeCase(SchemaFieldName(el))

\* b is a with the field identifier of its only input renamed: the inputs
\* differ in the name attribute alone, and appear under different schema keys.
IdRenamedField ==
    /\ idIn.a.triggerElement = idIn.b.triggerElement
    /\ Len(idIn.a.inputElements) = 1 /\ Len(idIn.b.inputElements) = 1
    /\ [idIn.a.inputElements[1] EXCEPT !.name = "x"]
          = [idIn.b.inputElements[1] EXCEPT !.name = "x"]
    /\ Truthy(SchemaFieldName(idIn.a.inputElements[1]))
    /\ Truthy(SchemaFieldName(idIn.b.inputElements[1]))
    /\ SchemaKey(idIn.a.inputElements[1]) # SchemaKey(idIn.b.inputElements[1])

\* b is a with the subtype of its only input changed.
IdChangedSubtype ==
    /\ idIn.a.triggerElement = idIn.b.triggerElement
    /\ Len(idIn.a.inputElements) = 1 /\ Len(idIn.b.inputElements) = 1
    /\ [idIn.a.inputElements[1] EXCEPT !.inputType = "x"]
          = [idIn.b.inputElements[1] EXCEPT !.inputType = "x"]
    /\ idIn.a.inputElements[1].inputType # idIn.b.inputElements[1].inputType

\* C9: renaming an input's field identifier (the identifier under which it
\* appears in the input schema) or changing its subtype always yields a
\* different id.
IdChangesOnSemanticEdit ==
    \A ids \in idOut :
        (IdRenamedField \/ IdChangedSubtype) => ids.a # ids.b

-----------------------------------------------------------------------------
(* Claims about runProbe *)

\* C10: on every exit path of runProbe after the browser has been launched
\* (return, navigation timeout, setup-script failure, extraction failure) the
\* browser session is closed before the call settles.
ProbeClosesSession ==
    probeSettled # {} => probeBrowser # "open"

\* The setup script has thrown in a launched browser, and the call has settled
\* with the browser closed.
ProbeClosesSessionWitness ==
    /\ probeCompletion = "throw at setup"
    /\ probeSettled = {ProbeResult("threw", <<>>)}
    /\ probeBrowser = "closed"

\* C11: every runProbe call eventually settles with its browser session
\* released, whichever step of the call stalls.
ProbeEventuallySettles ==
    <>(probeSettled # {} /\ probeBrowser # "open")

-----------------------------------------------------------------------------
(* Claims about buildProposals, in the instrument pipeline *)

CliBuilt == cliPc \notin {"start", "exit 1", "probe", "match", "build"}

\* The candidates of every component, in the order buildProposals visits them.
RECURSIVE CandidatesOf(_)
CandidatesOf(components) ==
    IF Len(components) = 0 THEN <<>>
    ELSE groupIntoToolCandidates(Head(components)) \o CandidatesOf(Tail(components))

CandidateIsExcluded(candidate) ==
    classifyRisk(candidate.triggerElement, candidate.handler).risk = "excluded"

CandidateIsKept(candidate) == ~CandidateIsExcluded(candidate)

\* C2: the list returned by buildProposals contains no proposal whose risk is
\* excluded and its index fields are exactly 1, 2, ..., n in list order; an
\* excluded candidate is dropped and consumes no index, so the n proposals are
\* the n non-excluded candidates, in order.
ExcludedNeverProposed ==
    CliBuilt =>
        LET kept == SelectSeq(CandidatesOf(cliAnalysis.components), CandidateIsKept)
        IN  /\ Len(cliProposals) = Len(kept)
            /\ \A i \in 1..Len(cliProposals) :
                  /\ cliProposals[i].risk # "excluded"
                  /\ cliProposals[i].index = i
                  /\ cliProposals[i].sourceMapping.triggerElement = kept[i].triggerElement
                  /\ cliProposals[i].sourceMapping.inputElements = kept[i].inputElements

\* C2 witness: an excluded candidate stood between two kept ones, and the
\* proposals built around it are numbered 1 and 2.
ExcludedNeverProposedWitness ==
    /\ CliBuilt
    /\ LET candidates == CandidatesOf(cliAnalysis.components)
       IN  \E i, j, k \in 1..Len(candidates) :
              /\ i < j /\ j < k
              /\ CandidateIsKept(candidates[i])
              /\ CandidateIsExcluded(candidates[j])
              /\ CandidateIsKept(candidates[k])
    /\ Len(cliProposals) >= 2
    /\ cliProposals[2].index = 2

ProposalElements(p) ==
    Range(p.sourceMapping.inputElements)
        \cup (IF p.sourceMapping.triggerElement.tag = undefined THEN {}
              ELSE {p.sourceMapping.triggerElement})

-----------------------------------------------------------------------------
(* Claims about instrumentCommand *)

\* C5: when tools are picked without a per-tool choice by the user (--yes), no
\* proposal whose isStable flag is false is among the tools passed to code
\* generation.
UnstableNeverAutoApproved ==
    (cliOptions.yes /\ cliPc \in {"generate", "written"}) =>
        \A i \in 1..Len(cliSelected) : cliSelected[i].isStable

\* C7: when the probe fails or returns zero elements, proposals are still
\* built and every trigger and input element of those proposals carries a
\* non-empty fallback-selector list.
DegradedProbeKeepsSelectors ==
    (CliBuilt /\ Len(cliProbeElements) = 0) =>
        /\ cliProposals = buildProposals(cliAnalysis)
        /\ \A i \in 1..Len(cliProposals) :
              \A el \in ProposalElements(cliProposals[i]) :
                 /\ el.selectorFallback # {}
                 /\ \A list \in el.selectorFallback : Len(list) > 0

-----------------------------------------------------------------------------
(* Claims about the incremental cache *)

\* What the key is meant to see of an input element, of a trigger and of a
\* handler.
InputSurface(el) == <<el.tag, el.name, el.inputType, el.label, el.stateBinding # undefined>>

TriggerSurface(el) == <<el.tag, el.name, el.label>>

SameSurface(t, u) ==
    /\ t.sourceMapping.componentName = u.sourceMapping.componentName
    /\ Len(t.sourceMapping.inputElements) = Len(u.sourceMapping.inputElements)
    /\ \A i \in 1..Len(t.sourceMapping.inputElements) :
          InputSurface(t.sourceMapping.inputElements[i])
              = InputSurface(u.sourceMapping.inputElements[i])
    /\ TriggerSurface(t.sourceMapping.triggerElement)
          = TriggerSurface(u.sourceMapping.triggerElement)
    /\ t.sourceMapping.handler.name = u.sourceMapping.handler.name
    /\ t.sourceMapping.handler.event = u.sourceMapping.handler.event
    /\ t.inputSchema = u.inputSchema

SetReturned == cacheLast.op = "set" /\ cacheLast.outcome = "returned"

CorruptCacheActsEmpty ==
    /\ cacheLast.outcome # "threw"
    /\ SetReturned =>
          \A t \in cacheLast.tool :
             EntryAt(cacheFile, CacheKey(t)) = {CacheEntry(CacheKey(t), cacheLast.handlerBody)}

\* C14: the file is read at most once per process, after a set the map on
\* disk equals the map in memory, and no entry stored is ever missing from the
\* loaded map.
CacheLoadedOnceWrittenThrough ==
    /\ cacheReads <= 1
    /\ SetReturned => cacheFile.entries = inMemoryCache.entries
    /\ cacheLast.outcome = "returned" =>
          cacheStored \subseteq { e.hash : e \in inMemoryCache.entries }

-----------------------------------------------------------------------------
(* Claims about the parsers' form tracking *)

\* The identifier of the nearest form enclosing the tag at position n, or
\* undefined outside every form.
NearestFormId(tags, n) ==
    LET open == OpenForms(tags, n - 1)
    IN  IF Len(open) = 0 THEN undefined ELSE open[Len(open)]

\* C15: every input element emitted by a walk carries as parentFormId the
\* identifier of the nearest form that encloses it, and undefined when it lies
\* outside every form.
ParentFormIsNearestEnclosing ==
    \A i \in 1..Len(walkElements) :
        walkElements[i].tag # "form" =>
            walkElements[i].parentFormId = NearestFormId(walkIn.tags, walkEmittedAt[i])

-----------------------------------------------------------------------------
(* Claims about absent arguments of classifyRisk *)

\* The lower-cased texts an element offers: its label, name and id.
ElementTexts(element) ==
    { toLowerCase(t) : t \in {element.label, element.name, element.id} \ {undefined, ""} }

\* The lower-cased texts a handler offers: its name and body.
HandlerTexts(handler) ==
    { toLowerCase(t) : t \in {handler.name, handler.body} \ {undefined, ""} }

AnyMentions(texts, keywords) ==
    \E t \in texts : \E i \in 1..Len(keywords) : Includes(t, keywords[i])

\* The tier the cascade yields from the given texts and call methods alone.
TierOf(texts, methods) ==
    IF AnyMentions(texts, EXCLUDED_PATTERNS) THEN "excluded"
    ELSE IF AnyMentions(texts, DESTRUCTIVE_KEYWORDS) \/ "DELETE" \in methods THEN "destructive"
    ELSE IF AnyMentions(texts, CAUTION_KEYWORDS) \/ methods \cap {"POST", "PUT", "PATCH"} # {}
         THEN "caution"
    ELSE "safe"

\* C20: an absent trigger element or an absent handler contributes no signal
\* to classifyRisk: with no element the tier is what the cascade yields from
\* the handler alone (a handler named handleReset is destructive), with no
\* handler it is what the cascade yields from the element alone, and an element
\* with no keyword in its label, name and id and no handler is safe.
AbsentArgumentAddsNoSignal ==
    riskOut # NoClassification =>
        /\ riskIn.triggerElement = NoElement =>
               riskOut.risk = TierOf(HandlerTexts(riskIn.handler),
                                     { toUpperCase(c.method) : c \in Range(riskIn.handler.apiCalls) })
        /\ riskIn.handler = NoHandler =>
               riskOut.risk = TierOf(ElementTexts(riskIn.triggerElement), {})
        /\ ( /\ riskIn.triggerElement = NoElement
             /\ riskIn.handler.name = "handleReset"
             /\ riskIn.handler.body = undefined ) => riskOut.risk = "destructive"
        /\ ( /\ riskIn.handler = NoHandler
             /\ ~AnyMentions(ElementTexts(riskIn.triggerElement),
                             EXCLUDED_PATTERNS \o DESTRUCTIVE_KEYWORDS \o CAUTION_KEYWORDS) )
               => riskOut.risk = "safe"

\* classifyRisk(undefined, handleReset) has returned destructive.
AbsentArgumentAddsNoSignalWitness ==
    /\ riskIn.triggerElement = NoElement
    /\ riskIn.handler.name = "handleReset"
    /\ riskIn.handler.body = undefined
    /\ riskIn.handler.apiCalls = <<>>
    /\ riskOut.risk = "destructive"

-----------------------------------------------------------------------------
(* Claims about the parsers' handler extraction *)

\* C16: every EventHandler a parser returns has an event kind that is one of
\* onSubmit, onClick, onChange.
HandlerEventsAreActionEvents ==
    \A handlers \in handlersOut :
        \A i \in 1..Len(handlers) : handlers[i].event \in {"onSubmit", "onClick", "onChange"}

-----------------------------------------------------------------------------
(* Claims about the grouping of a component's elements *)

GroupButtons == { b \in Range(groupIn.elements) : b.tag = "button" }

CandidatesWith(candidates, type, trigger) ==
    { k \in 1..Len(candidates) :
        candidates[k].type = type /\ candidates[k].triggerElement = trigger }

\* C17: every button of the component that no form candidate has as its
\* trigger is the trigger of exactly one action candidate, which has no input
\* elements; so every button is the trigger of at least one candidate.
UnclaimedButtonIsOneAction ==
    \A out \in groupOut : \A b \in GroupButtons :
        /\ CandidatesWith(out.candidates, "form", b) = {} =>
              /\ Cardinality(CandidatesWith(out.candidates, "action", b)) = 1
              /\ \A k \in CandidatesWith(out.candidates, "action", b) :
                    out.candidates[k].inputElements = <<>>
        /\ \E k \in 1..Len(out.candidates) : out.candidates[k].triggerElement = b

GroupForms == { f \in Range(groupIn.elements) : f.tag = "form" }

\* The candidate holds nothing from outside the form `form`.
ScopedTo(candidate, form) ==
    /\ \A i \in 1..Len(candidate.inputElements) :
          candidate.inputElements[i].parentFormId = form.id
    /\ HasTrigger(candidate) => candidate.triggerElement.parentFormId = form.id

\* C18: with no submit handler and one or more form elements, every form
\* candidate is scoped to one form: its inputs are inputs nested in that form
\* and its trigger is a button nested in that form.
FormCandidateIsScoped ==
    \A out \in groupOut :
        ( /\ \A i \in 1..Len(groupIn.eventHandlers) : ~IsOnSubmit(groupIn.eventHandlers[i])
          /\ GroupForms # {} ) =>
            \A k \in 1..Len(out.candidates) :
                out.candidates[k].type = "form" =>
                    \E form \in GroupForms : ScopedTo(out.candidates[k], form)

IsSecretInput(el) == el.inputType \in {"password", "file"}

-----------------------------------------------------------------------------
(* Claims about the Vite plugin *)

\* C21: the plugin has no option that enables destructive tools, so the code
\* it generates and the virtual module it serves never hold a tool whose risk
\* is destructive, after build start and after any hot updates.
ViteServesNoDestructiveTool ==
    /\ \A tool \in VirtualModule(generatedCodes) : tool.risk # "destructive"
    /\ \A served \in viteServed : \A tool \in served : tool.risk # "destructive"

-----------------------------------------------------------------------------
(* Claims about the agent webhook *)

\* C22: in the two-turn flow a destructive tool is generated only when the
\* reply includes its index number; a reply of "all" or "yes" generates
\* non-destructive tools only.
AllReplySkipsDestructive ==
    webhookLast.kind = "generated" =>
        \A i \in 1..Len(webhookLast.selected) :
            webhookLast.selected[i].risk = "destructive" =>
                /\ toLowerCase(Trim(webhookLast.text)) \notin {"all", "yes"}
                /\ webhookLast.selected[i].index \in Range(DigitRuns(webhookLast.text, {}, <<>>))

\* The entries cached under exactly the user of the last request that were
\* not older than the TTL when it was handled.
OwnFreshEntries ==
    { e \in Range(webhookLast.cacheBefore) :
        e.userId = webhookLast.userId /\ webhookLast.at - e.createdAt <= TTL_MS }

\* C25: getLatestProposal(userId) returns the newest entry among those cached
\* under exactly that userId and not older than the TTL, and undefined when
\* there is none; never an entry of another user, never a stale one.
LatestIsOwnFreshNewest ==
    webhookLast.kind \in {"generated", "no valid tools", "no active proposal"} =>
        IF OwnFreshEntries = {} THEN webhookLast.latest = {}
        ELSE \E e \in webhookLast.latest :
                /\ e \in OwnFreshEntries
                /\ \A o \in OwnFreshEntries : o.createdAt <= e.createdAt

-----------------------------------------------------------------------------
(* Claims about the lookup of an element at invocation time *)

\* C23: __mcpFind consults the list in order and uses the first strategy that
\* resolves to an element; a strategy that does not resolve, because nothing
\* matches or because its value is no CSS selector, never aborts the lookup,
\* which fails only when no strategy of the list resolves.
FindUsesFirstResolving ==
    \A result \in findResult :
        LET selectors == SelectorsOf[findEl]
            resolves(i) == selectors[i] \in findResolving
        IN  IF \E i \in 1..Len(selectors) : resolves(i)
            THEN /\ result.kind = "element"
                 /\ resolves(result.index)
                 /\ \A j \in 1..(result.index - 1) : ~resolves(j)
            ELSE result.kind # "element"

-----------------------------------------------------------------------------
(* Claims about the browser runtime *)

\* A step of invokeTool: the call or its resumption.
InvokeToolStep == runtimeCall' # runtimeCall

\* C24: invokeTool rejects, with a not-found error, exactly when no tool is
\* registered under the name; for a registered tool it never rejects, and a
\* handler that throws or rejects yields the resolved result {success: false,
\* message: the error's message}; no step of invokeTool changes the set of
\* registered tools.
InvokeToolContract ==
    /\ [](/\ runtimeCall.promise.state = "rejected" <=>
                (runtimeCall.pc = "settled" /\ runtimeCall.found = {})
          /\ runtimeCall.promise.state = "rejected" =>
                runtimeCall.promise.message =
                    "[WebMCP] Tool \"" \o runtimeCall.name \o "\" not found"
          /\ \A handler \in runtimeCall.found :
                ( /\ runtimeCall.pc = "settled"
                  /\ handler.kind \in {"throws", "rejects", "rejects string"} ) =>
                    runtimeCall.promise = Resolved(FALSE, handler.message))
    /\ [][InvokeToolStep => runtimeTools' = runtimeTools]_vars

\* The tool 'fail', whose handler throws 'boom', was invoked and the promise
\* resolved to {success: false, message: 'boom'}.
InvokeToolContractWitness ==
    /\ runtimeCall.pc = "settled"
    /\ runtimeCall.name = "fail"
    /\ runtimeCall.found = {HandlerBehaviour("rejects", "boom")}
    /\ runtimeCall.promise = Resolved(FALSE, "boom")

-----------------------------------------------------------------------------
(* C26 *)

\* C26: every standalone action candidate whose button carries an onClick
\* handler in the source is paired with that handler: the candidate's handler
\* is present and bears the name the button's onClick refers to.
ActionHandlerIsOwn ==
    \A candidates \in pairOut : \A k \in 1..Len(candidates) : \A i \in 1..Len(pairIn) :
        ( /\ candidates[k].type = "action"
          /\ candidates[k].triggerElement.label = pairIn[i].label
          /\ pairIn[i].onClick # undefined )
        => candidates[k].handler.name = pairIn[i].onClick

-----------------------------------------------------------------------------
(* C27 *)

\* C27: the parameters the template handler reads are the property keys of
\* the proposal's inputSchema: every fill line reads params.<key> for a key
\* of the schema, and every key of the schema is read by a fill line.
TemplateParamsAreSchemaKeys ==
    \A tool \in keyTool : \A fills \in keyHandler :
        { fills[i].value : i \in 1..Len(fills) }
            = { "params." \o tool.inputSchema.properties[i].key :
                    i \in 1..Len(tool.inputSchema.properties) }

-----------------------------------------------------------------------------
(* C28 *)

\* C28: within one buildProposals result no two proposals share a name.
ProposalNamesAreDistinct ==
    \A out \in groupOut : \A i, j \in 1..Len(out.proposals) :
        i # j => out.proposals[i].name # out.proposals[j].name

-----------------------------------------------------------------------------
(* C29 *)

\* C29: every proposal buildProposals returns has a non-empty name made of
\* lowercase letters, digits and underscores only.
ProposalNameIsSnake ==
    \A proposals \in nameOut : \A p \in 1..Len(proposals) :
        /\ Len(proposals[p].name) > 0
        /\ \A i \in 1..Len(proposals[p].name) :
               LET c == CharAt(proposals[p].name, i)
               IN  IndexIn(LowerAlphabet, c) # 0 \/ IndexIn(Digits, c) # 0 \/ c = "_"

-----------------------------------------------------------------------------
(* C30 *)

\* What buildSelector reads of an element before anything else: its id, its
\* data-testid attribute and its name.
SelectorIdentity(el) == <<el.id, el.attributes["data-testid"], el.name>>

SameSelectorIdentity(t, u) ==
    /\ Len(t.sourceMapping.inputElements) = Len(u.sourceMapping.inputElements)
    /\ \A i \in 1..Len(t.sourceMapping.inputElements) :
          SelectorIdentity(t.sourceMapping.inputElements[i])
              = SelectorIdentity(u.sourceMapping.inputElements[i])
    /\ SelectorIdentity(t.sourceMapping.triggerElement)
          = SelectorIdentity(u.sourceMapping.triggerElement)

\* C30: when getCachedHandler(u) returns the body stored by setCachedHandler(t,
\* body), every trigger and input element of u has the same id, data-testid
\* and name as the corresponding element of t.
CacheHitKeepsSelectors ==
    SetReturned =>
        \A t \in cacheLast.tool, u \in CacheTools :
            LET call == getCachedHandler(inMemoryCache, cacheFile, u)
            IN  ( /\ call.outcome = "returned"
                  /\ call.value # null
                  /\ CacheKey(u) = CacheKey(t) )
                => SameSelectorIdentity(t, u)

=============================================================================
